---- MODULE Spec2Model ----
(***************************************************************************)
(* Model of the interactive layered-editing engine of picture-ai/back:     *)
(* segmentation (flat / rule / grabcut), layer picking, layer editing,     *)
(* compositing and the in-memory session store, with the HTTP handlers of  *)
(* app/api as the actions.                                                 *)
(*                                                                         *)
(* Images are small pixel grids.  A pixel is a <<b, g, r>> triple of bytes *)
(* (the code's BGR order); a mask maps every pixel to a byte.  numpy's     *)
(* float32 arithmetic is modelled bit-exactly for the operations the       *)
(* compositor and the editor perform (round to nearest, ties to even).     *)
(***************************************************************************)
EXTENDS Integers, Sequences, FiniteSets, TLC

VARIABLES
    sessions,   \* SessionStore._sessions: session id -> EditSession
    hist,       \* history, per session id: the image as uploaded, the pixels
                \* inside the mask of some applied edit, the number of edits
    resp,       \* the response (or HTTP error) of the last request handled
    tasks,      \* requests being handled by concurrent threads, per thread
    sam,        \* the SamSegmenter singleton and the threads calling into it
    unit        \* a function applied on its own: its arguments and its result

vars == <<sessions, hist, resp, tasks, sam, unit>>

----------------------------------------------------------------------------
(* Small integer helpers.                                                  *)

\* 2^1 .. 2^30
Pow2Table ==
    <<2, 4, 8, 16, 32, 64, 128, 256, 512, 1024, 2048, 4096, 8192, 16384, 32768,
      65536, 131072, 262144, 524288, 1048576, 2097152, 4194304, 8388608,
      16777216, 33554432, 67108864, 134217728, 268435456, 536870912,
      1073741824>>

Pow2(n) == IF n <= 0 THEN 1 ELSE Pow2Table[n]

RECURSIVE BitLenFrom(_, _)
BitLenFrom(n, k) ==
    IF k >= 31 THEN 31 ELSE IF n < Pow2(k) THEN k ELSE BitLenFrom(n, k + 1)

\* the number of significant bits of n >= 0
BitLen(n) ==
    IF n >= 16777216 THEN BitLenFrom(n, 25)
    ELSE IF n >= 65536 THEN BitLenFrom(n, 17)
    ELSE IF n >= 256 THEN BitLenFrom(n, 9)
    ELSE BitLenFrom(n, 0)

Max(a, b) == IF a >= b THEN a ELSE b
Min(a, b) == IF a <= b THEN a ELSE b

RECURSIVE SumOver(_, _)
\* sum of f[x] for x in S
SumOver(f, S) ==
    IF S = {} THEN 0
    ELSE LET x == CHOOSE y \in S : TRUE IN f[x] + SumOver(f, S \ {x})

----------------------------------------------------------------------------
(* float32, non-negative values only: <<M, e>> stands for M * 2^e with     *)
(* M = 0 or 2^23 <= M < 2^24.  Every operation rounds to nearest, ties to  *)
(* even, as IEEE-754 single precision does.  Intermediate integers stay    *)
(* below 2^31.                                                             *)

MantBits == 24

F32Zero == <<0, 0>>

\* the mantissa kept, rounded up when the dropped part rem is above half, or
\* is half and sticky bits or an odd kept mantissa break the tie upward
RoundKept(kept, rem, half, sticky) ==
    IF rem > half \/ (rem = half /\ (sticky \/ kept % 2 = 1)) THEN kept + 1 ELSE kept

\* a rounded mantissa that reached 2^24 is renormalised
F32Carry(m, e) == IF m = Pow2(MantBits) THEN <<Pow2(MantBits - 1), e + 1>> ELSE <<m, e>>

\* N of nb significant bits
F32RoundBits(N, sticky, e, nb) ==
    IF nb <= MantBits
    THEN <<N * Pow2(MantBits - nb), e - (MantBits - nb)>>
    ELSE F32Carry(RoundKept(N \div Pow2(nb - MantBits), N % Pow2(nb - MantBits),
                            Pow2(nb - MantBits - 1), sticky),
                  e + nb - MantBits)

\* (N + s) * 2^e rounded to 24 significant bits; sticky says that non-zero
\* bits below N were dropped (0 < s < 1).
F32Round(N, sticky, e) ==
    IF N = 0 THEN F32Zero ELSE F32RoundBits(N, sticky, e, BitLen(N))

F32FromInt(n) == F32Round(n, FALSE, 0)

RECURSIVE LongDiv(_, _, _, _)
\* n more quotient bits of rem / a, appended to q: <<q, rem>>
LongDiv(q, rem, a, n) ==
    IF n = 0 THEN <<q, rem>>
    ELSE LET r2  == 2 * rem
             bit == IF r2 >= a THEN 1 ELSE 0
         IN LongDiv(2 * q + bit, r2 - bit * a, a, n - 1)

RECURSIVE ShiftUntil(_, _, _)
\* the least k with s * 2^k >= a
ShiftUntil(s, a, k) == IF s >= a THEN k ELSE ShiftUntil(2 * s, a, k + 1)

\* the quotient bits qr[1] and remainder qr[2] of a long division, rounded
F32DivRounded(qr, k0) == F32Round(qr[1], qr[2] # 0, 0 - k0 - (MantBits + 1))

\* float32(s / a) for integers 0 <= s < 2a, a >= 1
F32DivShifted(s, a, k0) ==
    F32DivRounded(LongDiv(1, s * Pow2(k0) - a, a, MantBits + 1), k0)

F32Div(s, a) == IF s = 0 THEN F32Zero ELSE F32DivShifted(s, a, ShiftUntil(s, a, 0))

\* A * 256 + R with 0 <= R < 256, times 2^e, rounded
F32RoundWide(A, R, e) ==
    IF A < Pow2(MantBits - 1)
    THEN F32Round(A * 256 + R, FALSE, e)
    ELSE F32Round(A * 64 + R \div 4, R % 4 # 0, e + 2)

\* float32(x * n) for a float32 x and an integer 0 <= n <= 255 (a byte held
\* in a float32 array)
F32MulByte(x, n) ==
    IF x[1] = 0 \/ n = 0 THEN F32Zero
    ELSE F32RoundWide((x[1] \div 256) * n + ((x[1] % 256) * n) \div 256,
                      ((x[1] % 256) * n) % 256, x[2])

\* float32(big + small) for exponents big[2] >= small[2], diff apart
F32AddOrdered(big, small, diff) ==
    IF diff <= 6
    THEN F32Round(big[1] * Pow2(diff) + small[1], FALSE, small[2])
    ELSE IF diff - 6 > MantBits
    THEN F32Round(big[1] * 64, TRUE, big[2] - 6)
    ELSE F32Round(big[1] * 64 + small[1] \div Pow2(diff - 6),
                  small[1] % Pow2(diff - 6) # 0, big[2] - 6)

\* float32(x + y)
F32Add(x, y) ==
    IF x[1] = 0 THEN y
    ELSE IF y[1] = 0 THEN x
    ELSE IF x[2] >= y[2] THEN F32AddOrdered(x, y, x[2] - y[2])
    ELSE F32AddOrdered(y, x, y[2] - x[2])

\* float32(1.0 - x) for 0 < x < 1 with x = x[1] * 2^(-k)
F32OneMinusAt(x, k) ==
    IF k <= 30 THEN F32Round(Pow2(k) - x[1], FALSE, x[2])
    ELSE IF x[1] % Pow2(k - 30) # 0
    THEN F32Round(Pow2(30) - x[1] \div Pow2(k - 30) - 1, TRUE, 0 - 30)
    ELSE F32Round(Pow2(30) - x[1] \div Pow2(k - 30), FALSE, 0 - 30)

\* float32(1.0 - x) for 0 <= x <= 1
F32OneMinus(x) ==
    IF x[1] = 0 THEN F32FromInt(1)
    ELSE IF 0 - x[2] < MantBits THEN F32Zero          \* x = 1.0
    ELSE F32OneMinusAt(x, 0 - x[2])

\* np.clip(x, 0, 255).astype(np.uint8): truncation toward zero
F32ToByte(x) ==
    IF x[1] = 0 THEN 0
    ELSE IF x[2] >= 0 THEN (IF x[2] > 0 \/ x[1] > 255 THEN 255 ELSE x[1])
    ELSE IF 0 - x[2] >= MantBits THEN 0
    ELSE Min(255, x[1] \div Pow2(0 - x[2]))

----------------------------------------------------------------------------
(* Pixel grids.  An image is a function from its pixels <<x, y>> to BGR    *)
(* triples; a mask is a function from its pixels to bytes.  The shape of   *)
(* an array is the domain of the function.                                 *)

Pixels(w, h) == (0 .. w - 1) \X (0 .. h - 1)

Width(a)  == 1 + (CHOOSE x \in {p[1] : p \in DOMAIN a} : \A q \in DOMAIN a : q[1] <= x)
Height(a) == 1 + (CHOOSE y \in {p[2] : p \in DOMAIN a} : \A q \in DOMAIN a : q[2] <= y)

Abs(n) == IF n < 0 THEN 0 - n ELSE n

\* q lies in the (2r+1) x (2r+1) window centred on p
InWindow(p, q, r) == Abs(q[1] - p[1]) <= r /\ Abs(q[2] - p[2]) <= r

\* the pixels of a mask that count as members (mask > 0)
Members(mask) == {p \in DOMAIN mask : mask[p] > 0}

\* a uint8 0/255 mask from a set of pixels
MaskOf(dom, S) == [p \in dom |-> IF p \in S THEN 255 ELSE 0]

Zeros(dom) == [p \in dom |-> 0]

----------------------------------------------------------------------------
(* service/composition/compositor.py                                       *)

\* _box_blur of the float mask mask/255 for a 0/255 mask: the window sum of
\* the integral image is the number of 255-pixels in the window clipped to
\* the image, the area is the number of pixels of that clipped window.
box_blur(mask, r) ==
    [p \in DOMAIN mask |->
        LET win == {q \in DOMAIN mask : InWindow(p, q, r)}
            s   == Cardinality({q \in win : mask[q] = 255})
        IN F32Div(s, Cardinality(win))]

\* one channel of out = (1 - m3) * base + m3 * edited in float32, then clip
\* and uint8; m is the mask value and one_minus_m the float32 1 - m
Blend(one_minus_m, m, b, e) ==
    F32ToByte(F32Add(F32MulByte(one_minus_m, b), F32MulByte(m, e)))

\* composite raises ValueError on a shape mismatch
composite_raises(base_bgr, edited_bgr, mask) ==
    \/ DOMAIN base_bgr # DOMAIN edited_bgr
    \/ DOMAIN mask # DOMAIN base_bgr

composite(base_bgr, edited_bgr, mask, feather_radius) ==
    LET mask_f == IF feather_radius > 0
                  THEN box_blur(mask, feather_radius)
                  ELSE [p \in DOMAIN mask |-> F32Div(mask[p], 255)]
    IN [p \in DOMAIN base_bgr |->
           LET m  == mask_f[p]
               om == F32OneMinus(m)
               b  == base_bgr[p]
               e  == edited_bgr[p]
           IN <<Blend(om, m, b[1], e[1]), Blend(om, m, b[2], e[2]),
                Blend(om, m, b[3], e[3])>>]

----------------------------------------------------------------------------
(* service/editing/prompt_translator.py and layer_editor.py                *)

\* The prompts requests carry.  A colour is kept as its six hex digits.
PromptEmpty    == "empty"        \* ""
PromptRed      == "red"          \* a prompt containing the colour word for red
PromptBrighter == "brighter"     \* a prompt containing a "brighter" word
PromptDarker   == "darker"       \* a prompt containing a "darker" word

HexRed == <<14, 1, 1, 13, 4, 8>>     \* color_map: "#E11D48"

\* translate_prompt_to_params raises ValueError("prompt is empty")
translate_raises(prompt) == prompt = PromptEmpty

\* translate_prompt_to_params: the edit parameters of a non-empty prompt.
\* scale is 1 + delta as the fraction <<num, den>>.
translate_prompt_to_params(prompt) ==
    CASE prompt = PromptRed      -> [mode |-> "recolor", color_hex |-> HexRed]
      [] prompt = PromptBrighter -> [mode |-> "brightness", scale |-> <<59, 50>>]
      [] prompt = PromptDarker   -> [mode |-> "brightness", scale |-> <<41, 50>>]

\* _hex_to_rgb: int(h[0:2], 16), int(h[2:4], 16), int(h[4:6], 16)
hex_to_rgb(h) == <<16 * h[1] + h[2], 16 * h[3] + h[4], 16 * h[5] + h[6]>>

\* the default alpha 0.65 of the recolor mode and 1 - alpha, as float32
RecolorAlpha         == F32Div(13, 20)
RecolorOneMinusAlpha == F32Div(7, 20)

\* out[m] = (1 - alpha) * out[m] + alpha * bgr
RecolorByte(v, c) ==
    F32ToByte(F32Add(F32MulByte(RecolorOneMinusAlpha, v), F32MulByte(RecolorAlpha, c)))

\* rgb[m] = rgb[m] * (1.0 + delta), scale_f the float32 1.0 + delta
BrightnessByte(v, scale_f) == F32ToByte(F32MulByte(scale_f, v))

\* edit_layer: only pixels with mask > 0 are rewritten.  The prompts above
\* reach the modes recolor and brightness; any other mode is the no-op branch.
edit_layer(image_bgr, mask, edit_params) ==
    IF edit_params.mode = "recolor"
    THEN LET rgb == hex_to_rgb(edit_params.color_hex)
             bgr == <<rgb[3], rgb[2], rgb[1]>>
         IN [p \in DOMAIN image_bgr |->
                IF p \in DOMAIN mask /\ mask[p] > 0
                THEN <<RecolorByte(image_bgr[p][1], bgr[1]),
                       RecolorByte(image_bgr[p][2], bgr[2]),
                       RecolorByte(image_bgr[p][3], bgr[3])>>
                ELSE image_bgr[p]]
    ELSE IF edit_params.mode = "brightness"
    THEN LET scale_f == F32Div(edit_params.scale[1], edit_params.scale[2])
         IN [p \in DOMAIN image_bgr |->
                IF p \in DOMAIN mask /\ mask[p] > 0
                THEN <<BrightnessByte(image_bgr[p][1], scale_f),
                       BrightnessByte(image_bgr[p][2], scale_f),
                       BrightnessByte(image_bgr[p][3], scale_f)>>
                ELSE image_bgr[p]]
    ELSE image_bgr

----------------------------------------------------------------------------
(* service/selection/layer_picker.py                                       *)

LAYER_ORDER == <<"border", "field", "rug", "background">>

\* f"{layer}_mask"
MaskKey(layer) == layer \o "_mask"

\* a lookup that answers the background mask for a key that is not bound
get_mask_default(masks, key) ==
    IF key \in DOMAIN masks THEN <<masks[key]>> ELSE <<masks["background_mask"]>>

\* masks.get(key): <<>> for None, else <<the mask>>
get_mask(masks, key) == IF key \in DOMAIN masks THEN <<masks[key]>> ELSE <<>>

\* the known layers of a mask dict, in LAYER_ORDER
Candidates(masks) == SelectSeq(LAYER_ORDER, LAMBDA l : MaskKey(l) \in DOMAIN masks)

RECURSIVE FirstHit(_, _, _, _)
\* the layers of the list whose mask is non-zero at (x, y), first one first
FirstHit(masks, layers, x, y) ==
    IF layers = <<>> THEN <<>>
    ELSE LET m == masks[MaskKey(Head(layers))] IN
         IF y < Height(m) /\ x < Width(m) /\ m[<<x, y>>] > 0
         THEN <<Head(layers)>>
         ELSE FirstHit(masks, Tail(layers), x, y)

\* pick_layer raises ValueError
pick_layer_raises(masks, x, y) ==
    \/ DOMAIN masks = {}
    \/ x < 0 \/ y < 0
    \/ Candidates(masks) = <<>>

\* pick_layer: the layer name and its mask
pick_layer(masks, x, y) ==
    LET hit == FirstHit(masks, Candidates(masks), x, y)
        layer == IF hit # <<>> THEN hit[1]
                 ELSE IF "rug_mask" \in DOMAIN masks THEN "rug"
                 ELSE Candidates(masks)[1]
    IN [layer |-> layer, mask |-> masks[MaskKey(layer)]]

----------------------------------------------------------------------------
(* Region helpers shared by the segmenters.                                *)

Neigh4(p, dom) == {q \in dom : Abs(q[1] - p[1]) + Abs(q[2] - p[2]) = 1}

RECURSIVE Grow(_, _)
\* the pixels of region reachable from S by 4-neighbour steps inside region
Grow(S, region) ==
    LET more == {q \in region \ S : \E p \in S : Abs(q[1] - p[1]) + Abs(q[2] - p[2]) = 1}
    IN IF more = {} THEN S ELSE Grow(S \cup more, region)

\* raster order: row by row, left to right
RasterLeq(p, q) == p[2] < q[2] \/ (p[2] = q[2] /\ p[1] <= q[1])
RasterFirst(S) == CHOOSE p \in S : \A q \in S : RasterLeq(p, q)

\* the largest 4-connected component of S, the first one in raster order among
\* the largest; {} when S is empty
LargestComponent(S) ==
    IF S = {} THEN {}
    ELSE LET comps == {Grow({p}, S) : p \in S}
         IN CHOOSE c \in comps : \A d \in comps :
                \/ Cardinality(c) > Cardinality(d)
                \/ Cardinality(c) = Cardinality(d) /\ RasterLeq(RasterFirst(c), RasterFirst(d))

\* square dilation and erosion by r inside the image: pixels outside the image
\* neither set nor clear anything
DilateSet(S, r, dom) == {p \in dom : \E q \in S : InWindow(p, q, r)}
ErodeSet(S, r, dom)  == {p \in dom : \A q \in dom \ S : ~InWindow(p, q, r)}

\* fractions <<num, den>> with den > 0
FracLeq(a, b) == a[1] * b[2] <= b[1] * a[2]

RECURSIVE InsertSorted(_, _)
InsertSorted(x, seq) ==
    IF seq = <<>> THEN <<x>>
    ELSE IF FracLeq(x, Head(seq)) THEN <<x>> \o seq
    ELSE <<Head(seq)>> \o InsertSorted(x, Tail(seq))

RECURSIVE Sorted(_)
\* sorted(list)
Sorted(seq) == IF seq = <<>> THEN <<>> ELSE InsertSorted(Head(seq), Sorted(Tail(seq)))

----------------------------------------------------------------------------
(* service/segmentation/flat_segmenter.py                                  *)

\* 1000 * (0.114 * B + 0.587 * G + 0.299 * R)
Gray1000(c) == 114 * c[1] + 587 * c[2] + 299 * c[3]

\* _flood_fill_from_edges: the foreground is what the fill from the edge
\* pixels of the white mask does not reach
flood_fill_from_edges(bg_mask) ==
    LET dom   == DOMAIN bg_mask
        w     == Width(bg_mask)
        h     == Height(bg_mask)
        white == Members(bg_mask)
        edge  == {p \in white : p[1] = 0 \/ p[1] = w - 1 \/ p[2] = 0 \/ p[2] = h - 1}
    IN MaskOf(dom, dom \ Grow(edge, white))

\* _morphology_close: dilate then erode with a kernel_size x kernel_size rectangle
morphology_close(mask, kernel_size) ==
    IF kernel_size <= 1 THEN mask
    ELSE LET dom == DOMAIN mask
             r   == (kernel_size - 1) \div 2
         IN MaskOf(dom, ErodeSet(DilateSet(Members(mask), r, dom), r, dom))

\* _largest_connected_component
largest_connected_component(mask) == MaskOf(DOMAIN mask, LargestComponent(Members(mask)))

\* _distance_transform, squared: the squared Euclidean distance of every
\* foreground pixel to the nearest zero pixel, 0 on zero pixels
distance_transform2(mask) ==
    LET zero == (DOMAIN mask) \ Members(mask)
        d2(p, q) == (p[1] - q[1]) * (p[1] - q[1]) + (p[2] - q[2]) * (p[2] - q[2])
    IN [p \in DOMAIN mask |->
           IF p \in zero \/ zero = {} THEN 0
           ELSE LET near == CHOOSE q \in zero : \A z \in zero : d2(p, q) <= d2(p, z)
                IN d2(p, near)]

\* an uploaded file: px the BGR pixels, alpha <<>> or <<the alpha channel>>
HasAlpha(file) == file.alpha # <<>>

\* steps 1-3: the cleaned foreground mask
flat_rug(file, white_threshold) ==
    LET image == file.px
        dom   == DOMAIN image
        fromAlpha == IF HasAlpha(file) /\ DOMAIN file.alpha[1] = dom
                     THEN {p \in dom : file.alpha[1][p] > 0} ELSE {}
        raw == IF fromAlpha # {} THEN MaskOf(dom, fromAlpha)
               ELSE flood_fill_from_edges(
                        [p \in dom |-> IF Gray1000(image[p]) >= 1000 * white_threshold
                                       THEN 255 ELSE 0])
    IN largest_connected_component(morphology_close(raw, 3))

flat_seg_mode(file) ==
    IF HasAlpha(file) /\ DOMAIN file.alpha[1] = DOMAIN file.px
       /\ \E p \in DOMAIN file.px : file.alpha[1][p] > 0
    THEN "alpha" ELSE "white_threshold"

\* the validation of fg_ratio: ValueError below 1% and above 99%
flat_raises(file, white_threshold) ==
    LET fg    == Cardinality(Members(flat_rug(file, white_threshold)))
        total == Cardinality(DOMAIN file.px)
    IN fg * 100 < total \/ fg * 100 > 99 * total

\* current_ratios; layer_ratios is <<>> for None
current_ratios(alpha_val, layer_count, layer_ratios, max_dist2) ==
    IF max_dist2 < 4 THEN <<<<1, 1>>>>
    ELSE IF layer_ratios = <<>>
    THEN IF layer_count <= 2 THEN <<alpha_val, <<1, 1>>>>
         ELSE [i \in 1 .. layer_count |-> <<i, layer_count>>]
    ELSE LET srt == Sorted(layer_ratios) IN
         IF srt[Len(srt)][1] # srt[Len(srt)][2] THEN Append(srt, <<1, 1>>) ELSE srt

LayerKey(i) ==
    <<"layer_0_mask", "layer_1_mask", "layer_2_mask", "layer_3_mask",
      "layer_4_mask", "layer_5_mask", "layer_6_mask", "layer_7_mask">>[i + 1]

\* bands closed at both ends
InBand_closed(d2, lo, hi, max_dist2) ==
    /\ lo[1] < 0 \/ d2 * lo[2] * lo[2] >= lo[1] * lo[1] * max_dist2
    /\ hi[1] >= 0 /\ d2 * hi[2] * hi[2] <= hi[1] * hi[1] * max_dist2

\* dist > lo * max_dist /\ dist <= hi * max_dist, on squared distances; a
\* negative ratio gives a negative threshold, below every distance
InBand(d2, lo, hi, max_dist2) ==
    /\ lo[1] < 0 \/ d2 * lo[2] * lo[2] > lo[1] * lo[1] * max_dist2
    /\ hi[1] >= 0 /\ d2 * hi[2] * hi[2] <= hi[1] * hi[1] * max_dist2

\* max_dist = dist.max(), squared
max_dist2(dist2) ==
    CHOOSE m \in {dist2[p] : p \in DOMAIN dist2} : \A q \in DOMAIN dist2 : dist2[q] <= m

\* the layer masks of the loop over current_ratios, in order: layer i holds
\* the rug pixels with prev_ratio * max_dist < dist <= ratio * max_dist
layer_bands(dist2, ratios, max2) ==
    [i \in 1 .. Len(ratios) |->
        MaskOf(DOMAIN dist2, {p \in DOMAIN dist2 :
            InBand(dist2[p], IF i = 1 THEN <<0, 1>> ELSE ratios[i - 1], ratios[i], max2)})]

\* result["layer_{i}_mask"] for every layer, and border/field for two layers
layer_keys(bands) ==
    LET idx == [k \in {LayerKey(i - 1) : i \in DOMAIN bands} |->
                   bands[CHOOSE i \in DOMAIN bands : LayerKey(i - 1) = k]]
    IN IF Len(bands) = 2
       THEN idx @@ [k \in {"border_mask", "field_mask"} |->
                       IF k = "border_mask" THEN bands[1] ELSE bands[2]]
       ELSE idx

\* steps 4-5 of segment_flat_design from the rug mask, its distance
\* transform and max_dist
flat_layers(rug, dist2, max2, alpha_val, layer_count, layer_ratios) ==
    [k \in {"rug_mask", "background_mask"} |->
        IF k = "rug_mask" THEN rug ELSE MaskOf(DOMAIN rug, (DOMAIN rug) \ Members(rug))]
    @@ (IF max2 < 4
        THEN [k \in {"field_mask", "border_mask", "layer_0_mask"} |->
                 IF k = "border_mask" THEN Zeros(DOMAIN rug) ELSE rug]
        ELSE layer_keys(layer_bands(dist2,
                 current_ratios(alpha_val, layer_count, layer_ratios, max2), max2)))

flat_from_dist(rug, dist2, alpha_val, layer_count, layer_ratios) ==
    flat_layers(rug, dist2, max_dist2(dist2), alpha_val, layer_count, layer_ratios)

flat_from_rug(rug, alpha_val, layer_count, layer_ratios) ==
    flat_from_dist(rug, distance_transform2(rug), alpha_val, layer_count, layer_ratios)

\* segment_flat_design (when it does not raise): the masks it returns, by key
segment_flat_design(file, alpha_val, white_threshold, layer_count, layer_ratios) ==
    flat_from_rug(flat_rug(file, white_threshold), alpha_val, layer_count, layer_ratios)

----------------------------------------------------------------------------
(* service/segmentation/rule_segmenter.py                                  *)

\* round(n * num / den), ties to even
RoundMul(n, num, den) ==
    LET q == (n * num) \div den
        r == (n * num) % den
    IN IF 2 * r > den \/ (2 * r = den /\ q % 2 = 1) THEN q + 1 ELSE q

\* twice the median of a non-empty family of values given as a function from
\* an index set of even size: the sum of the two middle values
Median2(vals) ==
    LET I == DOMAIN vals
        n == Cardinality(I)
        rank(i) == Cardinality({j \in I : vals[j] < vals[i]})
        cover(i, k) == rank(i) <= k /\ k < rank(i) + Cardinality({j \in I : vals[j] = vals[i]})
        at(k) == vals[CHOOSE i \in I : cover(i, k)]
    IN at(n \div 2 - 1) + at(n \div 2)

\* _estimate_background_rgb_from_corners, doubled, per BGR channel: the four
\* p x p corner patches are concatenated (a pixel in two patches counts twice)
estimate_background2(image) ==
    LET w == Width(image)
        h == Height(image)
        p == Min(Min(Max(4, RoundMul(Min(h, w), 6, 100)), h), w)
        xs == <<0 .. p - 1, w - p .. w - 1, 0 .. p - 1, w - p .. w - 1>>
        ys == <<0 .. p - 1, 0 .. p - 1, h - p .. h - 1, h - p .. h - 1>>
        I  == {t \in (1 .. 4) \X DOMAIN image : t[2][1] \in xs[t[1]] /\ t[2][2] \in ys[t[1]]}
    IN [c \in 1 .. 3 |-> Median2([t \in I |-> image[t[2]][c]])]

\* is_bg = ((dist <= 26) & (score >= 200)) | (score >= 248), with the
\* distance to the doubled background estimate and the score tripled
is_bg(c, bg2) ==
    \/ /\ (2 * c[1] - bg2[1]) * (2 * c[1] - bg2[1]) + (2 * c[2] - bg2[2]) * (2 * c[2] - bg2[2])
          + (2 * c[3] - bg2[3]) * (2 * c[3] - bg2[3]) <= 4 * 676
       /\ c[1] + c[2] + c[3] >= 600
    \/ c[1] + c[2] + c[3] >= 744

\* the largest component closed by a 7 x 7 square
close_largest(rug0, dom) == ErodeSet(DilateSet(LargestComponent(rug0), 3, dom), 3, dom)

\* the rug mask before the ring: not background, largest component, closed
rule_rug_from(image, bg2) ==
    close_largest({p \in DOMAIN image : ~is_bg(image[p], bg2)}, DOMAIN image)

rule_rug(image) == rule_rug_from(image, estimate_background2(image))

\* the four masks from the rug and the border ring
rule_masks(dom, rug, border) ==
    [k \in {"background_mask", "rug_mask", "border_mask", "field_mask"} |->
           CASE k = "background_mask" -> MaskOf(dom, dom \ rug)
             [] k = "rug_mask"        -> MaskOf(dom, rug)
             [] k = "border_mask"     -> MaskOf(dom, border)
             [] k = "field_mask"      -> MaskOf(dom, rug \ border)]

\* border = ring - inner: ring the rug dilated by max(2, round(0.02 * min(h, w))),
\* inner the rug eroded by max(2, round(0.04 * min(h, w)))
rule_layers(dom, rug, side) ==
    rule_masks(dom, rug, DilateSet(rug, Max(2, RoundMul(side, 2, 100)), dom)
                           \ ErodeSet(rug, Max(2, RoundMul(side, 4, 100)), dom))

\* segment_rug_layers: the four masks, by key (alpha is not used by the code)
segment_rug_layers(image) ==
    rule_layers(DOMAIN image, rule_rug(image), Min(Height(image), Width(image)))

----------------------------------------------------------------------------
(* The inputs requests are drawn from.                                     *)

MaxSessions == 1     \* sessions created in one run
MaxEdits    == 2     \* successful edits applied to one session
MaxFeather  == 1     \* feather_radius of /edit/apply ranges over 0 .. MaxFeather
MaxCands    == 2     \* masks one point prediction returns

WHITE == <<255, 255, 255>>
DARK  == <<60, 40, 20>>

\* an image from its rows, top row first
FromRows(rows) ==
    [p \in Pixels(Len(rows[1]), Len(rows)) |-> rows[p[2] + 1][p[1] + 1]]

\* white margin on the left, dark rug on the right
ImgA == FromRows(<<<<WHITE, WHITE, DARK, DARK, DARK>>,
                   <<WHITE, WHITE, DARK, DARK, DARK>>>>)
\* a one-column dark rug at the left edge
ImgB == FromRows(<<<<DARK, WHITE, WHITE, WHITE, WHITE>>,
                   <<DARK, WHITE, WHITE, WHITE, WHITE>>>>)

\* a dark rug that fills the whole image
ImgD == [p \in DOMAIN ImgA |-> DARK]

BadFile == [px |-> <<>>, alpha |-> <<>>]       \* bytes PIL cannot decode
FileA == [px |-> ImgA, alpha |-> <<>>]
FileB == [px |-> ImgB, alpha |-> <<>>]
FileD == [px |-> ImgD, alpha |-> <<>>]
UploadFiles == {FileA, FileD, BadFile}         \* posted to /interactive/upload
CreateFiles == {FileB, BadFile}                \* posted to /session/create

AlphaVals       == {<<1, 2>>}       \* alpha_val 0.5
WhiteThresholds == {245}
LayerCounts     == {2, 3}

SIDs == 1 .. MaxSessions + 1        \* one id more than is ever created
\* clicks <<x, y>>: left of, above, right of and below the 5 x 2 images, and
\* inside them (on the background, the border and the field of ImgA)
Clicks == {<<-1, 0>>, <<0, -1>>, <<5, 0>>, <<0, 2>>, <<0, 0>>, <<2, 0>>, <<3, 0>>}

RequestLayers == {"border", "rug", "background", "selected_region", "nosuch"}
Prompts == {PromptEmpty, PromptRed}

\* what the point prediction may answer for the 5 x 2 images: (mask, score)
\* pairs, the empty mask with the highest confidence
PredPool == {<<Zeros(DOMAIN ImgA), 3>>,
             <<MaskOf(DOMAIN ImgA, {p \in DOMAIN ImgA : p[1] >= 3}), 2>>,
             <<MaskOf(DOMAIN ImgA, {p \in DOMAIN ImgA : p[1] >= 2}), 1>>}

RECURSIVE SeqsUpTo(_, _)
\* the sequences over S of length at most n
SeqsUpTo(S, n) ==
    IF n = 0 THEN {<<>>}
    ELSE LET shorter == SeqsUpTo(S, n - 1)
         IN shorter \cup {Append(q, x) : q \in {t \in shorter : Len(t) = n - 1}, x \in S}

PredOutputs == SeqsUpTo(PredPool, MaxCands)

----------------------------------------------------------------------------
(* service/segmentation/sam_segmenter.py                                   *)

\* RGB <-> BGR: arr[:, :, ::-1]
\* bgr_to_png_base64: the RGB pixels of the PNG, bgr[:, :, ::-1]
bgr_to_png_base64(bgr) == [p \in DOMAIN bgr |-> <<bgr[p][3], bgr[p][2], bgr[p][1]>>]

Reverse3(image) == [p \in DOMAIN image |-> <<image[p][3], image[p][2], image[p][1]>>]

\* compute_embedding: the embedding stands for the image it was computed from
compute_embedding(image_rgb) == [of |-> image_rgb]

\* results left in the order the predictor gave them
SortByScore_unsorted(seq) == seq

RECURSIVE InsertByScore(_, _)
InsertByScore(r, seq) ==
    IF seq = <<>> THEN <<r>>
    ELSE IF r.score > Head(seq).score THEN <<r>> \o seq
    ELSE <<Head(seq)>> \o InsertByScore(r, Tail(seq))

RECURSIVE SortByScore(_)
\* results.sort(key=score, reverse=True): descending, stable
SortByScore(seq) ==
    IF seq = <<>> THEN <<>>
    ELSE InsertByScore(seq[Len(seq)], SortByScore(SubSeq(seq, 1, Len(seq) - 1)))

\* predict_at_point on the raw (mask, score) pairs the predictor returns
predict_at_point(raw) ==
    SortByScore([i \in 1 .. Len(raw) |->
        [mask  |-> raw[i][1],
         score |-> raw[i][2],
         area  |-> Cardinality({p \in DOMAIN raw[i][1] : raw[i][1][p] = 255})]])

----------------------------------------------------------------------------
(* service/session/session_store.py                                        *)

SessionFields == {"session_id", "last_result_bgr", "masks", "meta",
                  "sam_embedding", "image_rgb", "all_sam_masks"}

\* EditSession(...) as create_session builds it; an absent optional is <<>>
create_session(sid, last_result_bgr, masks, meta) ==
    [session_id      |-> sid,
     last_result_bgr |-> last_result_bgr,
     masks           |-> masks,
     meta            |-> meta,
     sam_embedding   |-> <<>>,
     image_rgb       |-> <<>>,
     all_sam_masks   |-> <<>>]

\* update_session(sid, **kw): a keyword naming a field replaces it, any other
\* keyword is stored in meta
\* a store that ignores update_session
update_session_noop(store, sid, kw) == store

update_session(store, sid, kw) ==
    LET s     == store[sid]
        extra == [k \in (DOMAIN kw) \ SessionFields |-> kw[k]]
        meta  == IF "meta" \in DOMAIN kw THEN kw.meta ELSE s.meta
    IN [store EXCEPT ![sid] =
           [f \in SessionFields |->
               IF f = "meta" THEN extra @@ meta
               ELSE IF f \in DOMAIN kw THEN kw[f]
               ELSE s[f]]]

\* get_session: <<>> for None
get_session(store, sid) == IF sid \in DOMAIN store THEN <<store[sid]>> ELSE <<>>

\* update_session raises KeyError
update_session_raises(store, sid) == sid \notin DOMAIN store

\* a store that drops every session
delete_session_all(store, sid) == <<>>

\* delete_session: self._sessions.pop(session_id, None)
delete_session(store, sid) == [k \in (DOMAIN store) \ {sid} |-> store[k]]

----------------------------------------------------------------------------
(* State.                                                                  *)

\* The last request and its response: op the endpoint, sid, x, y, req_layer
\* and mask_index the request's fields, status the HTTP status, layer, mask and
\* image the response body, model what became of the point prediction during
\* the request ("not_called", "returned" or "raised") and cands what it returned.
\* For an upload, upload holds the request, ran the segmentation strategies
\* that were called, in order, and reasons the strategies whose failure reason
\* the error detail carries.
NoUpload == [file |-> BadFile, alpha_val |-> <<0, 1>>, white_threshold |-> 0,
             layer_count |-> 0]

NoResp(op, sid, status) ==
    [op |-> op, sid |-> sid, x |-> 0, y |-> 0, req_layer |-> "", mask_index |-> 0,
     status |-> status,
     layer |-> "", mask |-> <<>>, image |-> <<>>, model |-> "not_called", cands |-> <<>>,
     upload |-> NoUpload, ran |-> <<>>, reasons |-> <<>>]

PickResp(op, sid, x, y, status) == [NoResp(op, sid, status) EXCEPT !.x = x, !.y = y]

EditResp(op, sid, layer, status) == [NoResp(op, sid, status) EXCEPT !.req_layer = layer]

MaxThreads == 2      \* threads that handle requests at the same time

Threads == 1 .. MaxThreads

\* a thread that handles no request
IdleTask == [pc |-> "idle", sid |-> 0, layer |-> "", prompt |-> "",
             mask |-> <<>>, edited |-> <<>>, result |-> <<>>]

\* SamSegmenter before its first use: instances counts the SamSegmenter objects
\* constructed (_instance is None while it is 0), lock is the thread holding
\* _lock (0: free), model_loaded and predictor (0: None) are the fields of the
\* instance, loads counts the executions of the loading body of _ensure_model,
\* predictors the SamPredictor objects constructed,
\* pc and call are the position of every thread and the method it calls
SamCold == [instances |-> 0, lock |-> 0, model_loaded |-> FALSE, predictor |-> 0,
            loads |-> 0, predictors |-> 0, features |-> <<>>,
            pc |-> [t \in Threads |-> "idle"], call |-> [t \in Threads |-> ""]]

\* no function applied
NoUnit == [fn |-> "", args |-> <<>>, out |-> <<>>, raised |-> FALSE]

Init ==
    /\ sessions = <<>>
    /\ hist = <<>>
    /\ resp = NoResp("start", 0, 0)
    /\ tasks = [t \in Threads |-> IdleTask]
    /\ sam = SamCold
    /\ unit = NoUnit

\* uuid.uuid4().hex: an id no session has; the least one stands for it
FreshId(store) == CHOOSE i \in SIDs \ DOMAIN store : \A j \in SIDs \ DOMAIN store : i <= j

\* the history of a new session; deleted: delete_session was called on its id
NewHist(image) == [orig |-> image, touched |-> {}, edits |-> 0, deleted |-> FALSE]

\* segment_rug_layers raises unless image_bgr is an H x W x 3 array
rule_raises(image) == \E p \in DOMAIN image : Len(image[p]) # 3

\* the rectangle interactive_upload hands to GrabCut:
\* rect = (int(w*0.1), int(h*0.1), int(w*0.8), int(h*0.8))
GrabCutRect(image) ==
    LET w == Width(image)
        h == Height(image)
    IN {p \in DOMAIN image :
           /\ p[1] >= w \div 10 /\ p[1] < w \div 10 + (8 * w) \div 10
           /\ p[2] >= h \div 10 /\ p[2] < h \div 10 + (8 * h) \div 10}

\* what becomes of cv2.grabCut: it labels the rectangle foreground, it raises
\* cv2.error (caught: an all-zero mask is returned), or another exception
\* escapes segment_with_grabcut
GrabCutOutcomes(image) ==
    {[kind |-> "ok", fg |-> GrabCutRect(image)],
     [kind |-> "cv2_error", fg |-> {}],
     [kind |-> "raise", fg |-> {}]}

\* segment_with_grabcut (when it does not raise): the binary foreground mask
segment_with_grabcut(image, gc) == MaskOf(DOMAIN image, gc.fg)

----------------------------------------------------------------------------
(* api/interactive.py: POST /interactive/upload                            *)

LegacyKeys == {"rug_mask", "border_mask", "field_mask", "background_mask"}

\* the first try block of the legacy branch fails: segment_from_pil raises, or
\* the result lacks one of the four keys that are read from it (KeyError)
flat_unusable(file, alpha_val, white_threshold, layer_count) ==
    \/ flat_raises(file, white_threshold)
    \/ ~(LegacyKeys \subseteq
            DOMAIN segment_flat_design(file, alpha_val, white_threshold, layer_count, <<>>))

\* the masks GrabCut's foreground is stored as
grabcut_masks(fg_mask) ==
    [k \in LegacyKeys |->
        CASE k = "border_mask"     -> Zeros(DOMAIN fg_mask)
          [] k = "background_mask" -> MaskOf(DOMAIN fg_mask, (DOMAIN fg_mask) \ Members(fg_mask))
          [] OTHER                 -> fg_mask]

\* the outcome of one strategy chain: ok, the masks and seg_mode, the
\* strategies that ran and those whose reason an error reports
Segmented(masks, seg_mode, ran) ==
    [ok |-> TRUE, masks |-> masks, seg_mode |-> seg_mode, ran |-> ran, reasons |-> <<>>]

\* the legacy branch; rule_error says that segment_rug_layers raises, gc is
\* what becomes of GrabCut if it is reached
LegacySegmentation(file, alpha_val, white_threshold, layer_count, rule_error, gc) ==
    IF ~flat_unusable(file, alpha_val, white_threshold, layer_count)
    THEN Segmented([k \in LegacyKeys |->
                       segment_flat_design(file, alpha_val, white_threshold,
                                           layer_count, <<>>)[k]],
                   flat_seg_mode(file), <<"flat">>)
    ELSE IF ~(rule_error \/ rule_raises(file.px))
    THEN Segmented(segment_rug_layers(file.px), "rule", <<"flat", "rule">>)
    ELSE IF gc.kind # "raise"
    THEN Segmented(grabcut_masks(segment_with_grabcut(file.px, gc)), "grabcut",
                   <<"flat", "rule", "grabcut">>)
    ELSE \* detail = f"... {seg_error}": the reason of the flat segmenter only
         [ok |-> FALSE, masks |-> <<>>, seg_mode |-> "",
          ran |-> <<"flat", "rule", "grabcut">>, reasons |-> <<"flat">>]

\* the masks of the SAM branch: the coarse background of the flat segmenter,
\* or an all-zero background when the flat segmenter raises
SamSegmentation(file, alpha_val, white_threshold, layer_count) ==
    LET dom == DOMAIN file.px IN
    IF ~flat_raises(file, white_threshold)
    THEN LET flat == segment_flat_design(file, alpha_val, white_threshold, layer_count, <<>>)
         IN [k \in {"background_mask", "rug_mask"} |-> flat[k]]
    ELSE [k \in {"background_mask"} |-> Zeros(dom)]

\* the session interactive_upload creates: create_session, then the SAM data
NewSession(request, seg, sid, embedding) ==
    [create_session(sid, request.file.px, seg.masks,
                    [w |-> Width(request.file.px), h |-> Height(request.file.px),
                     seg_mode |-> seg.seg_mode, alpha_val |-> request.alpha_val])
        EXCEPT !.sam_embedding = embedding,
               !.image_rgb = <<Reverse3(request.file.px)>>]

\* the session and the response of an upload whose segmentation gave seg
Uploaded(request, seg, sid, embedding) ==
    IF ~seg.ok
    THEN /\ resp' = [NoResp("upload", 0, 400) EXCEPT
                        !.upload = request, !.ran = seg.ran, !.reasons = seg.reasons]
         /\ UNCHANGED <<sessions, hist>>
    ELSE /\ sessions' = (sid :> NewSession(request, seg, sid, embedding)) @@ sessions
         /\ hist' = (sid :> NewHist(request.file.px)) @@ hist
         /\ resp' = [NoResp("upload", sid, 200) EXCEPT
                        !.layer = seg.seg_mode, !.upload = request, !.ran = seg.ran]

InteractiveUpload ==
    /\ UNCHANGED <<tasks, sam, unit>>
    /\ \E file \in UploadFiles :
        /\ Cardinality(DOMAIN sessions) < MaxSessions
        /\ IF file = BadFile
           THEN /\ resp' = NoResp("upload", 0, 400)
                /\ UNCHANGED <<sessions, hist>>
           ELSE \E alpha_val \in AlphaVals, white_threshold \in WhiteThresholds,
                   layer_count \in LayerCounts, samAvail \in BOOLEAN, embOk \in BOOLEAN,
                   rule_error \in BOOLEAN, gc \in GrabCutOutcomes(file.px) :
                IF samAvail /\ embOk
                THEN Uploaded([file |-> file, alpha_val |-> alpha_val,
                               white_threshold |-> white_threshold,
                               layer_count |-> layer_count],
                              Segmented(SamSegmentation(file, alpha_val, white_threshold,
                                                        layer_count),
                                        "sam", <<"flat">>),
                              FreshId(sessions),
                              <<compute_embedding(Reverse3(file.px))>>)
                ELSE Uploaded([file |-> file, alpha_val |-> alpha_val,
                               white_threshold |-> white_threshold,
                               layer_count |-> layer_count],
                              LegacySegmentation(file, alpha_val, white_threshold,
                                                 layer_count, rule_error, gc),
                              FreshId(sessions), <<>>)

(* api/segment.py: POST /session/create                                    *)
SessionCreate ==
    /\ UNCHANGED <<tasks, sam, unit>>
    /\ \E file \in CreateFiles :
        /\ Cardinality(DOMAIN sessions) < MaxSessions
        /\ IF file = BadFile \/ rule_raises(file.px)
           THEN /\ resp' = NoResp("session_create", 0, 500)
                /\ UNCHANGED <<sessions, hist>>
           ELSE LET sid == FreshId(sessions)
                    s0  == create_session(sid, file.px, segment_rug_layers(file.px),
                                          [alpha |-> <<1, 4>>])
                IN /\ sessions' = (sid :> s0) @@ sessions
                   /\ hist' = (sid :> NewHist(file.px)) @@ hist
                   /\ resp' = NoResp("session_create", sid, 200)

----------------------------------------------------------------------------
(* api/interactive.py: POST /interactive/pick                              *)

\* a pick that answers the failure instead of falling back
LegacyPick_error(r, s) == [r EXCEPT !.status = 500]

\* the legacy part of interactive_pick, on session s; r is the response so far
LegacyPick(r, s) ==
    IF pick_layer_raises(s.masks, r.x, r.y)
    THEN [r EXCEPT !.status = 400]
    ELSE IF pick_layer(s.masks, r.x, r.y).layer = "background"
            \/ pick_layer(s.masks, r.x, r.y).mask[<<r.x, r.y>>] = 0
    THEN [r EXCEPT !.layer = "none", !.mask = <<Zeros(DOMAIN s.last_result_bgr)>>]
    ELSE [r EXCEPT !.layer = pick_layer(s.masks, r.x, r.y).layer,
                   !.mask = <<pick_layer(s.masks, r.x, r.y).mask>>]

\* a pick that never consults the coarse background mask
clicked_background_off(masks, c) == FALSE

\* bg = session.masks.get("background_mask"); bg is not None and bg[y, x] > 0
clicked_background(masks, c) ==
    "background_mask" \in DOMAIN masks /\ masks["background_mask"][c] > 0

\* the SAM branch of interactive_pick once predict_at_point has returned results
SamPick(r, sid, results, min_area1000) ==
    IF results = <<>> \/ 1000 * results[1].area < min_area1000
    THEN /\ resp' = [r EXCEPT !.layer = "none", !.model = "returned", !.cands = results]
         /\ UNCHANGED <<sessions, hist>>
    ELSE /\ sessions' = [sessions EXCEPT
              ![sid].masks = ("active_mask" :> results[1].mask) @@ @,
              ![sid].all_sam_masks = results]
         /\ resp' = [r EXCEPT !.layer = "selected_region", !.mask = <<results[1].mask>>,
                              !.model = "returned", !.cands = results]
         /\ UNCHANGED hist

InteractivePick ==
    /\ UNCHANGED <<tasks, sam, unit>>
    /\ \E sid \in SIDs :
        IF sid \notin DOMAIN sessions
        THEN /\ resp' = NoResp("pick", sid, 404)
             /\ UNCHANGED <<sessions, hist>>
        ELSE \E c \in Clicks :
             LET s == sessions[sid]
                 x == c[1]
                 y == c[2]
                 w == Width(s.last_result_bgr)
                 h == Height(s.last_result_bgr)
                 empty_mask == Zeros(DOMAIN s.last_result_bgr)
                 ok == [PickResp("pick", sid, x, y, 200) EXCEPT !.mask = <<empty_mask>>]
             IN
             IF x < 0 \/ x >= w \/ y < 0 \/ y >= h
             THEN /\ resp' = PickResp("pick", sid, x, y, 422)
                  /\ UNCHANGED <<sessions, hist>>
             ELSE IF s.sam_embedding # <<>>
             THEN IF clicked_background(s.masks, c)
                  THEN /\ sessions' = [sessions EXCEPT ![sid].all_sam_masks = <<>>]
                       /\ resp' = [ok EXCEPT !.layer = "none"]
                       /\ UNCHANGED hist
                  ELSE \/ \* the predictor raises: fall through to legacy
                          /\ resp' = LegacyPick([PickResp("pick", sid, x, y, 200)
                                                    EXCEPT !.model = "raised"], s)
                          /\ UNCHANGED <<sessions, hist>>
                       \/ \E raw \in PredOutputs :
                            \* min_area = h * w * 0.003, times 1000
                            SamPick(ok, sid, predict_at_point(raw), 3 * h * w)
             ELSE /\ resp' = LegacyPick(PickResp("pick", sid, x, y, 200), s)
                  /\ UNCHANGED <<sessions, hist>>

(* api/select.py: POST /select/pick                                        *)
SelectPick ==
    /\ UNCHANGED <<tasks, sam, unit>>
    /\ \E sid \in SIDs :
        /\ UNCHANGED <<sessions, hist>>
        /\ IF sid \notin DOMAIN sessions
           THEN resp' = NoResp("select_pick", sid, 404)
           ELSE \E c \in Clicks :
                IF pick_layer_raises(sessions[sid].masks, c[1], c[2])
                THEN resp' = PickResp("select_pick", sid, c[1], c[2], 500)
                ELSE resp' = [PickResp("select_pick", sid, c[1], c[2], 200) EXCEPT
                                 !.layer = pick_layer(sessions[sid].masks, c[1], c[2]).layer,
                                 !.mask = <<pick_layer(sessions[sid].masks, c[1], c[2]).mask>>]

(* api/interactive.py: POST /interactive/switch-mask                       *)

\* session.all_sam_masks[mask_index] of a list of n entries, as a 1-based
\* position: a negative index counts from the end, 0 stands for IndexError
ListPosition(mask_index, n) ==
    IF mask_index >= 0 THEN mask_index + 1
    ELSE IF n + mask_index >= 0 THEN n + mask_index + 1 ELSE 0

SwitchMask ==
    /\ UNCHANGED <<tasks, sam, unit>>
    /\ \E sid \in SIDs :
        IF sid \notin DOMAIN sessions
        THEN /\ resp' = NoResp("switch_mask", sid, 404)
             /\ UNCHANGED <<sessions, hist>>
        ELSE \E mask_index \in -1 .. MaxCands :
             LET all == sessions[sid].all_sam_masks
                 r   == [NoResp("switch_mask", sid, 200) EXCEPT !.mask_index = mask_index]
             IN IF all = <<>> \/ mask_index >= Len(all)
                THEN /\ resp' = [r EXCEPT !.status = 400]
                     /\ UNCHANGED <<sessions, hist>>
                ELSE IF ListPosition(mask_index, Len(all)) = 0
                THEN /\ resp' = [r EXCEPT !.status = 500]
                     /\ UNCHANGED <<sessions, hist>>
                ELSE /\ sessions' = [sessions EXCEPT ![sid].masks =
                            ("active_mask" :> all[ListPosition(mask_index, Len(all))].mask) @@ @]
                     /\ resp' = [r EXCEPT !.layer = "selected_region",
                                   !.mask = <<all[ListPosition(mask_index, Len(all))].mask>>]
                     /\ UNCHANGED hist

----------------------------------------------------------------------------
(* api/interactive.py: POST /interactive/edit and api/edit.py: /edit/apply *)

\* the successful tail of both handlers: edit, composite, update_session
ApplyEdit(r, mask, prompt, feather_radius) ==
    IF composite_raises(sessions[r.sid].last_result_bgr,
                        edit_layer(sessions[r.sid].last_result_bgr, mask,
                                   translate_prompt_to_params(prompt)),
                        mask)
    THEN /\ resp' = [r EXCEPT !.status = 500]
         /\ UNCHANGED <<sessions, hist>>
    ELSE /\ sessions' = update_session(sessions, r.sid,
              [last_result_bgr |->
                  composite(sessions[r.sid].last_result_bgr,
                            edit_layer(sessions[r.sid].last_result_bgr, mask,
                                       translate_prompt_to_params(prompt)),
                            mask, feather_radius)])
         /\ hist' = [hist EXCEPT ![r.sid].touched = @ \cup Members(mask),
                                 ![r.sid].edits = @ + 1]
         /\ resp' = [r EXCEPT !.image = <<bgr_to_png_base64(sessions'[r.sid].last_result_bgr)>>,
                              !.mask = <<mask>>]

\* the mask interactive_edit looks up for a layer: <<>> for None
edit_mask(masks, layer) ==
    IF layer = "selected_region" THEN get_mask(masks, "active_mask")
    ELSE get_mask(masks, MaskKey(layer))

InteractiveEdit ==
    /\ UNCHANGED <<tasks, sam, unit>>
    /\ \E sid \in SIDs :
        IF sid \notin DOMAIN sessions
        THEN /\ resp' = NoResp("edit", sid, 404)
             /\ UNCHANGED <<sessions, hist>>
        ELSE \E layer \in RequestLayers, prompt \in Prompts :
             IF layer \notin {"field", "border", "rug", "selected_region"}
             THEN /\ resp' = EditResp("edit", sid, layer, 422)
                  /\ UNCHANGED <<sessions, hist>>
             ELSE IF prompt = PromptEmpty
             THEN /\ resp' = EditResp("edit", sid, layer, 422)
                  /\ UNCHANGED <<sessions, hist>>
             ELSE IF edit_mask(sessions[sid].masks, layer) = <<>>
             THEN /\ resp' = EditResp("edit", sid, layer, 400)
                  /\ UNCHANGED <<sessions, hist>>
             ELSE /\ hist[sid].edits < MaxEdits
                  /\ ApplyEdit(EditResp("edit", sid, layer, 200),
                               edit_mask(sessions[sid].masks, layer)[1], prompt, 0)

EditApply ==
    /\ UNCHANGED <<tasks, sam, unit>>
    /\ \E sid \in SIDs :
        IF sid \notin DOMAIN sessions
        THEN /\ resp' = NoResp("edit_apply", sid, 404)
             /\ UNCHANGED <<sessions, hist>>
        ELSE \E layer \in RequestLayers, prompt \in Prompts,
                feather_radius \in 0 .. MaxFeather :
             IF get_mask(sessions[sid].masks, MaskKey(layer)) = <<>>
             THEN /\ resp' = EditResp("edit_apply", sid, layer, 400)
                  /\ UNCHANGED <<sessions, hist>>
             ELSE IF translate_raises(prompt)
             THEN /\ resp' = EditResp("edit_apply", sid, layer, 400)
                  /\ UNCHANGED <<sessions, hist>>
             ELSE /\ hist[sid].edits < MaxEdits
                  /\ ApplyEdit(EditResp("edit_apply", sid, layer, 200),
                               get_mask(sessions[sid].masks, MaskKey(layer))[1], prompt,
                               feather_radius)

----------------------------------------------------------------------------
Next ==
    \/ InteractiveUpload
    \/ SessionCreate
    \/ InteractivePick
    \/ SelectPick
    \/ SwitchMask
    \/ InteractiveEdit
    \/ EditApply


Spec == Init /\ [][Next]_vars

----------------------------------------------------------------------------
(* Two /interactive/edit requests on one session, handled by threads that  *)
(* share the module-level session_store.  A step is one statement of the   *)
(* handler that reads or writes the session.                               *)

RaceLayers == {"border", "field"}
RacePrompts == {PromptRed, PromptDarker}

\* the request of FileA with the defaults of the model
RaceUpload == [file |-> FileA, alpha_val |-> <<1, 2>>, white_threshold |-> 245,
               layer_count |-> 2]

\* after a legacy upload of FileA: one session, no edit yet
InitRace ==
    /\ sessions = (1 :> NewSession(RaceUpload,
                                   LegacySegmentation(FileA, <<1, 2>>, 245, 2, FALSE,
                                                      [kind |-> "raise", fg |-> {}]),
                                   1, <<>>))
    /\ hist = (1 :> NewHist(ImgA))
    /\ resp = [NoResp("upload", 1, 200) EXCEPT !.layer = "white_threshold",
                                               !.upload = RaceUpload, !.ran = <<"flat">>]
    /\ tasks = [t \in Threads |-> IdleTask]
    /\ sam = SamCold
    /\ unit = NoUnit

\* session = get_session(...), the validations, mask = session.masks.get(...)
RaceStart(t) ==
    /\ tasks[t].pc = "idle"
    /\ \E sid \in DOMAIN sessions, layer \in RaceLayers, prompt \in RacePrompts :
          /\ edit_mask(sessions[sid].masks, layer) # <<>>
          /\ tasks' = [tasks EXCEPT ![t] =
                 [IdleTask EXCEPT !.pc = "edit_layer", !.sid = sid, !.layer = layer,
                                  !.prompt = prompt,
                                  !.mask = edit_mask(sessions[sid].masks, layer)]]
    /\ UNCHANGED <<sessions, hist, resp, sam, unit>>

\* edited_bgr = edit_layer(session.last_result_bgr, mask, edit_params)
RaceEditLayer(t) ==
    /\ tasks[t].pc = "edit_layer"
    /\ tasks' = [tasks EXCEPT ![t].pc = "composite",
                              ![t].edited = <<edit_layer(sessions[tasks[t].sid].last_result_bgr,
                                                         tasks[t].mask[1],
                                                         translate_prompt_to_params(tasks[t].prompt))>>]
    /\ UNCHANGED <<sessions, hist, resp, sam, unit>>

\* result_bgr = composite(session.last_result_bgr, edited_bgr, mask, feather_radius=0)
RaceComposite(t) ==
    /\ tasks[t].pc = "composite"
    /\ tasks' = [tasks EXCEPT ![t].pc = "update",
                              ![t].result = <<composite(sessions[tasks[t].sid].last_result_bgr,
                                                        tasks[t].edited[1], tasks[t].mask[1], 0)>>]
    /\ UNCHANGED <<sessions, hist, resp, sam, unit>>

\* session_store.update_session(req.session_id, last_result_bgr=result_bgr)
RaceUpdate(t) ==
    /\ tasks[t].pc = "update"
    /\ sessions' = update_session(sessions, tasks[t].sid,
                                  [last_result_bgr |-> tasks[t].result[1]])
    /\ hist' = [hist EXCEPT ![tasks[t].sid].touched = @ \cup Members(tasks[t].mask[1]),
                            ![tasks[t].sid].edits = @ + 1]
    /\ resp' = [EditResp("edit", tasks[t].sid, tasks[t].layer, 200) EXCEPT
                    !.image = <<bgr_to_png_base64(tasks[t].result[1])>>, !.mask = tasks[t].mask]
    /\ tasks' = [tasks EXCEPT ![t].pc = "done"]
    /\ UNCHANGED <<sam, unit>>

NextRace ==
    \E t \in Threads :
        \/ RaceStart(t)
        \/ RaceEditLayer(t)
        \/ RaceComposite(t)
        \/ RaceUpdate(t)

SpecRace == InitRace /\ [][NextRace]_vars

----------------------------------------------------------------------------
(* The operations of SessionStore called directly, on one-pixel images.    *)

MaxCreates == 2      \* create_session calls in one run

StoreIds == 1 .. MaxCreates + 1     \* session ids; uuid4 is taken never to repeat one
StoreImages == {[p \in Pixels(1, 1) |-> DARK], [p \in Pixels(1, 1) |-> WHITE]}
StoreMasks(image) == [k \in {"rug_mask"} |-> MaskOf(DOMAIN image, DOMAIN image)]
StoreMeta == [w |-> 1, h |-> 1]

\* the keyword arguments of update_session: fields, a replacement for meta,
\* and a keyword that names no field
StoreKwargs ==
    {[last_result_bgr |-> image] : image \in StoreImages}
    \cup {[meta |-> [w |-> 2]], [note |-> 1],
          [all_sam_masks |-> <<>>, note |-> 1]}

InitStore ==
    /\ sessions = <<>>
    /\ hist = <<>>
    /\ resp = NoResp("start", 0, 0)
    /\ tasks = [t \in Threads |-> IdleTask]
    /\ sam = SamCold
    /\ unit = NoUnit

\* the call fn(args) returned out, or raised
Called(fn, args, out, raised) == [fn |-> fn, args |-> args, out |-> out, raised |-> raised]

StoreCreate ==
    /\ Cardinality(DOMAIN hist) < MaxCreates
    /\ \E sid \in StoreIds \ DOMAIN hist, image \in StoreImages :
          /\ sessions' = (sid :> create_session(sid, image, StoreMasks(image), StoreMeta))
                             @@ sessions
          /\ hist' = (sid :> NewHist(image)) @@ hist
          /\ unit' = Called("create_session", <<image>>, <<sid>>, FALSE)
    /\ UNCHANGED <<resp, tasks, sam>>

StoreGet ==
    /\ \E sid \in StoreIds :
          unit' = Called("get_session", <<sid>>, get_session(sessions, sid), FALSE)
    /\ UNCHANGED <<sessions, hist, resp, tasks, sam>>

StoreUpdate ==
    /\ \E sid \in StoreIds, kw \in StoreKwargs :
          IF update_session_raises(sessions, sid)
          THEN /\ unit' = Called("update_session", <<sid, kw>>, <<>>, TRUE)
               /\ UNCHANGED sessions
          ELSE /\ sessions' = update_session(sessions, sid, kw)
               /\ unit' = Called("update_session", <<sid, kw>>, <<sessions'[sid]>>, FALSE)
    /\ UNCHANGED <<hist, resp, tasks, sam>>

StoreDelete ==
    /\ \E sid \in StoreIds :
          /\ sessions' = delete_session(sessions, sid)
          /\ hist' = IF sid \in DOMAIN hist THEN [hist EXCEPT ![sid].deleted = TRUE] ELSE hist
          /\ unit' = Called("delete_session", <<sid>>, <<>>, FALSE)
    /\ UNCHANGED <<resp, tasks, sam>>

NextStore ==
    \/ StoreCreate
    \/ StoreGet
    \/ StoreUpdate
    \/ StoreDelete

SpecStore == InitStore /\ [][NextStore]_vars

----------------------------------------------------------------------------
(* composite called on its own with the same image as base and as edited.  *)

CompBytes == {0, 100, 255}      \* channel values of the first pixel
CompMaskBytes == {0, 85, 255}   \* mask values

\* images of two pixels: the first pixel varies, the second is DARK
CompImages == {[p \in Pixels(2, 1) |-> IF p = <<0, 0>> THEN <<b, g, r>> ELSE DARK] :
                  b \in CompBytes, g \in CompBytes, r \in CompBytes}
CompMasks == [Pixels(2, 1) -> CompMaskBytes]

InitComposite ==
    /\ sessions = <<>>
    /\ hist = <<>>
    /\ resp = NoResp("start", 0, 0)
    /\ tasks = [t \in Threads |-> IdleTask]
    /\ sam = SamCold
    /\ \E image \in CompImages, mask \in CompMasks, feather_radius \in 0 .. MaxFeather :
          unit = Called("composite", <<image, mask, feather_radius>>, <<>>, FALSE)

\* out = composite(image, image, mask, feather_radius)
CompositeSelf ==
    /\ unit.fn = "composite" /\ unit.out = <<>>
    /\ unit' = [unit EXCEPT !.out = <<composite(unit.args[1], unit.args[1], unit.args[2],
                                                unit.args[3])>>]
    /\ UNCHANGED <<sessions, hist, resp, tasks, sam>>

NextComposite == CompositeSelf

SpecComposite == InitComposite /\ [][NextComposite]_vars

----------------------------------------------------------------------------
(* composite called on its own with feather_radius 0.                      *)

InitHard ==
    /\ sessions = <<>>
    /\ hist = <<>>
    /\ resp = NoResp("start", 0, 0)
    /\ tasks = [t \in Threads |-> IdleTask]
    /\ sam = SamCold
    /\ \E base \in CompImages, edited \in CompImages, mask \in CompMasks :
          unit = Called("composite", <<base, edited, mask, 0>>, <<>>, FALSE)

\* out = composite(base, edited, mask, feather_radius=0)
CompositeHard ==
    /\ unit.fn = "composite" /\ unit.out = <<>>
    /\ unit' = [unit EXCEPT !.out = <<composite(unit.args[1], unit.args[2], unit.args[3],
                                                unit.args[4])>>]
    /\ UNCHANGED <<sessions, hist, resp, tasks, sam>>

NextHard == CompositeHard

SpecHard == InitHard /\ [][NextHard]_vars

----------------------------------------------------------------------------
(* service/color/color_transfer.py and api/color.py.  Images are RGB.      *)
(* cv2.cvtColor on bytes follows OpenCV: RGB2HSV in fixed point with a     *)
(* shift of 12 and H in 0 .. 179, HSV2RGB by the sector formula, rounded.  *)

\* cvRound(n / d) for n >= 0, d > 0: to nearest, ties to even
RoundHalfEven(n, d) ==
    IF 2 * (n % d) > d THEN (n \div d) + 1
    ELSE IF 2 * (n % d) < d THEN n \div d
    ELSE IF (n \div d) % 2 = 0 THEN n \div d ELSE (n \div d) + 1

sdiv_table(v) == IF v = 0 THEN 0 ELSE RoundHalfEven(255 * 4096, v)
hdiv_table180(diff) == IF diff = 0 THEN 0 ELSE RoundHalfEven(180 * 4096, 6 * diff)

HueNum(r, g, b, v, diff) ==
    IF v = r THEN g - b
    ELSE IF v = g THEN b - r + 2 * diff
    ELSE r - g + 4 * diff

HueWrap(h) == IF h < 0 THEN h + 180 ELSE h

HsvFrom(r, g, b, v, diff) ==
    <<HueWrap((HueNum(r, g, b, v, diff) * hdiv_table180(diff) + 2048) \div 4096),
      (diff * sdiv_table(v) + 2048) \div 4096,
      v>>

\* cv2.cvtColor(., COLOR_RGB2HSV) of one pixel
rgb2hsv(px) ==
    HsvFrom(px[1], px[2], px[3], Max(px[1], Max(px[2], px[3])),
            Max(px[1], Max(px[2], px[3])) - Min(px[1], Min(px[2], px[3])))

\* tab[0..3] of HSV2RGB as <<v, v(1-s), v(1-s f), v(1-s(1-f))>>, f = hm / 30
HsvTab(hm, s, v) ==
    <<v,
      RoundHalfEven(v * (255 - s), 255),
      RoundHalfEven(v * (7650 - s * hm), 7650),
      RoundHalfEven(v * (7650 - s * (30 - hm)), 7650)>>

\* sector_data of HSV2RGB, as the tab index of <<r, g, b>>
SectorRGB == <<<<1, 4, 2>>, <<3, 1, 2>>, <<2, 1, 4>>, <<2, 3, 1>>, <<4, 2, 1>>, <<1, 2, 3>>>>

RgbFrom(tab, sector) ==
    <<tab[SectorRGB[sector + 1][1]], tab[SectorRGB[sector + 1][2]],
      tab[SectorRGB[sector + 1][3]]>>

\* cv2.cvtColor(., COLOR_HSV2RGB) of one pixel
hsv2rgb(hsv) == RgbFrom(HsvTab(hsv[1] % 30, hsv[2], hsv[3]), (hsv[1] \div 30) % 6)

\* (diff ** 2).sum(axis=2)
Dist2(px, src) ==
    (px[1] - src[1]) * (px[1] - src[1]) + (px[2] - src[2]) * (px[2] - src[2])
        + (px[3] - src[3]) * (px[3] - src[3])

\* mask = dist <= tolerance
color_mask(result, src, tolerance) ==
    {p \in DOMAIN result : Dist2(result[p], src) <= tolerance * tolerance}

\* result_hsv[mask, 0] = tgt_hsv[0, 0, 0]; result_hsv[mask, 1] = tgt_hsv[0, 0, 1]
hue_sat_of(hsv, tgt_hsv) == <<tgt_hsv[1], tgt_hsv[2], hsv[3]>>

recolor_hsv(result, mask, tgt) ==
    [p \in DOMAIN result |->
        hsv2rgb(IF p \in mask THEN hue_sat_of(rgb2hsv(result[p]), rgb2hsv(tgt))
                ELSE rgb2hsv(result[p]))]

\* result[mask] = tgt_arr
recolor_direct(result, mask, tgt) ==
    [p \in DOMAIN result |-> IF p \in mask THEN tgt ELSE result[p]]

\* one turn of the loop over zip(source_colors, target_colors)
apply_pair(result, mask, tgt, preserve_luminance) ==
    IF mask = {} THEN result
    ELSE IF preserve_luminance THEN recolor_hsv(result, mask, tgt)
    ELSE recolor_direct(result, mask, tgt)

RECURSIVE apply_pairs(_, _, _, _, _, _)
apply_pairs(result, source_colors, target_colors, tolerance, preserve_luminance, i) ==
    IF i > Min(Len(source_colors), Len(target_colors)) THEN result
    ELSE apply_pairs(apply_pair(result, color_mask(result, source_colors[i], tolerance),
                                target_colors[i], preserve_luminance),
                     source_colors, target_colors, tolerance, preserve_luminance, i + 1)

\* ColorTransferService.apply_color_mapping
apply_color_mapping(image, source_colors, target_colors, tolerance, preserve_luminance) ==
    apply_pairs(image, source_colors, target_colors, tolerance, preserve_luminance, 1)

\* the status of POST /color/apply-mapping
color_api_status(decoded, source_colors, target_colors, tolerance) ==
    IF tolerance < 10 \/ tolerance > 100 THEN 422
    ELSE IF ~decoded THEN 400
    ELSE IF Len(source_colors) # Len(target_colors) THEN 422
    ELSE 200

MaxPairs == 2     \* colours in a source or target list

ColorA == <<10, 20, 30>>
ColorB == <<200, 0, 0>>
ColorC == <<255, 1, 0>>
ColorD == <<0, 0, 255>>
ColorImages == [Pixels(2, 1) -> {ColorA, ColorB, ColorC}]
ColorLists == UNION {[1 .. n -> {ColorA, ColorB, ColorD}] : n \in 0 .. MaxPairs}
Tolerances == {0, 10}

InitColor ==
    /\ sessions = <<>>
    /\ hist = <<>>
    /\ resp = NoResp("start", 0, 0)
    /\ tasks = [t \in Threads |-> IdleTask]
    /\ sam = SamCold
    /\ \E image \in ColorImages, source_colors \in ColorLists, target_colors \in ColorLists,
          tolerance \in Tolerances, preserve_luminance \in BOOLEAN :
          unit = Called("start", <<image, source_colors, target_colors, tolerance,
                                    preserve_luminance>>, <<>>, FALSE)

\* color_transfer_service.apply_color_mapping(image, sources, targets, ...)
ColorMap ==
    /\ unit.fn = "start"
    /\ unit' = [unit EXCEPT !.fn = "apply_color_mapping",
                            !.out = <<apply_color_mapping(unit.args[1], unit.args[2],
                                                          unit.args[3], unit.args[4],
                                                          unit.args[5])>>]
    /\ UNCHANGED <<sessions, hist, resp, tasks, sam>>

\* POST /color/apply-mapping
ColorApplyMapping ==
    /\ unit.fn = "start"
    /\ \E decoded \in BOOLEAN :
          IF color_api_status(decoded, unit.args[2], unit.args[3], unit.args[4]) = 200
          THEN unit' = [unit EXCEPT !.fn = "color/apply-mapping",
                                    !.out = <<apply_color_mapping(unit.args[1], unit.args[2],
                                                                  unit.args[3], unit.args[4],
                                                                  unit.args[5])>>]
          ELSE unit' = [unit EXCEPT !.fn = "color/apply-mapping", !.raised = TRUE]
    /\ UNCHANGED <<sessions, hist, resp, tasks, sam>>

NextColor ==
    \/ ColorMap
    \/ ColorApplyMapping

SpecColor == InitColor /\ [][NextColor]_vars

----------------------------------------------------------------------------
(* utils/color_matcher.py: parse_color.  A str is a sequence of            *)
(* one-character strings.                                                   *)

HexChars == <<"0", "1", "2", "3", "4", "5", "6", "7", "8", "9",
              "A", "B", "C", "D", "E", "F">>
LowerHex == <<"0", "1", "2", "3", "4", "5", "6", "7", "8", "9",
              "a", "b", "c", "d", "e", "f">>
DecChars == {HexChars[i] : i \in 1 .. 10}

\* int(c, 16) of one character matched by [0-9a-fA-F]
HexVal(c) ==
    IF \E i \in 1 .. 16 : HexChars[i] = c
    THEN (CHOOSE i \in 1 .. 16 : HexChars[i] = c) - 1
    ELSE (CHOOSE i \in 1 .. 16 : LowerHex[i] = c) - 1

IsHexChar(c) == \E i \in 1 .. 16 : HexChars[i] = c \/ LowerHex[i] = c

RECURSIVE lstrip(_, _)
lstrip(s, chars) == IF s # <<>> /\ s[1] \in chars THEN lstrip(Tail(s), chars) ELSE s

RECURSIVE rstrip(_, _)
rstrip(s, chars) ==
    IF s # <<>> /\ s[Len(s)] \in chars THEN rstrip(SubSeq(s, 1, Len(s) - 1), chars) ELSE s

\* str.strip()
strip(s) == rstrip(lstrip(s, {" "}), {" "})

\* re.fullmatch(r"[0-9a-fA-F]{6}", s)
is_hex6(s) == Len(s) = 6 /\ \A i \in 1 .. 6 : IsHexChar(s[i])

\* the pieces of s between its commas
RECURSIVE SplitCommas(_, _, _)
SplitCommas(s, i, field) ==
    IF i > Len(s) THEN <<field>>
    ELSE IF s[i] = "," THEN <<field>> \o SplitCommas(s, i + 1, <<>>)
    ELSE SplitCommas(s, i + 1, Append(field, s[i]))

\* \d{1,3}
is_digits(f) == Len(f) \in 1 .. 3 /\ \A i \in 1 .. Len(f) : f[i] \in DecChars

\* re.fullmatch(r"(\d{1,3})\s*,\s*(\d{1,3})\s*,\s*(\d{1,3})", s) on the pieces
is_rgb_fields(fields) ==
    /\ Len(fields) = 3
    /\ is_digits(rstrip(fields[1], {" "}))
    /\ is_digits(strip(fields[2]))
    /\ is_digits(lstrip(fields[3], {" "}))

\* int(m.group(i))
RECURSIVE DecInt(_, _)
DecInt(f, acc) == IF f = <<>> THEN acc ELSE DecInt(Tail(f), 10 * acc + HexVal(f[1]))

\* _clamp
clamp(v) == Max(0, Min(255, v))

Parsed(r, g, b) == [raised |-> FALSE, out |-> <<<<r, g, b>>>>]

parse_hex(h) ==
    Parsed(16 * HexVal(h[1]) + HexVal(h[2]), 16 * HexVal(h[3]) + HexVal(h[4]),
           16 * HexVal(h[5]) + HexVal(h[6]))

parse_fields(fields) ==
    Parsed(clamp(DecInt(strip(fields[1]), 0)), clamp(DecInt(strip(fields[2]), 0)),
           clamp(DecInt(strip(fields[3]), 0)))

parse_str(s) ==
    IF is_hex6(lstrip(s, {"#"})) THEN parse_hex(lstrip(s, {"#"}))
    ELSE IF is_rgb_fields(SplitCommas(s, 1, <<>>)) THEN parse_fields(SplitCommas(s, 1, <<>>))
    ELSE [raised |-> TRUE, out |-> <<>>]

\* parse_color: color is [tuple |-> <<r, g, b>>] or [str |-> s]
parse_color(color) ==
    IF "tuple" \in DOMAIN color
    THEN Parsed(clamp(color.tuple[1]), clamp(color.tuple[2]), clamp(color.tuple[3]))
    ELSE parse_str(strip(color.str))

\* the inputs: a colour written in each form, and strings in no form
ParseBytes == {0, 39, 193, 255}
Hex2(n) == <<HexChars[(n \div 16) + 1], HexChars[(n % 16) + 1]>>
Dec(n) ==
    IF n >= 100 THEN <<HexChars[(n \div 100) + 1], HexChars[((n \div 10) % 10) + 1],
                       HexChars[(n % 10) + 1]>>
    ELSE IF n >= 10 THEN <<HexChars[(n \div 10) + 1], HexChars[(n % 10) + 1]>>
    ELSE <<HexChars[n + 1]>>
Hex6(t) == Hex2(t[1]) \o Hex2(t[2]) \o Hex2(t[3])
ParseForms == {"#RRGGBB", "RRGGBB", "R,G,B", "R, G, B", "tuple"}
Written(t, form) ==
    CASE form = "#RRGGBB" -> [str |-> <<"#">> \o Hex6(t)]
      [] form = "RRGGBB"  -> [str |-> Hex6(t)]
      [] form = "R,G,B"   -> [str |-> Dec(t[1]) \o <<",">> \o Dec(t[2]) \o <<",">> \o Dec(t[3])]
      [] form = "R, G, B" -> [str |-> Dec(t[1]) \o <<",", " ">> \o Dec(t[2])
                                        \o <<",", " ">> \o Dec(t[3])]
      [] form = "tuple"   -> [tuple |-> t]
      [] form = "##RRGGBB" -> [str |-> <<"#", "#">> \o Hex6(t)]
      [] form = "R,G"     -> [str |-> Dec(t[1]) \o <<",">> \o Dec(t[2])]
      [] form = "#RRGGB"  -> [str |-> <<"#">> \o Hex2(t[1]) \o Hex2(t[2]) \o <<"0">>]
      [] form = "R;G;B"   -> [str |-> Dec(t[1]) \o <<";">> \o Dec(t[2]) \o <<";">> \o Dec(t[3])]
OtherForms == {"##RRGGBB", "R,G", "#RRGGB", "R;G;B"}

InitParse ==
    /\ sessions = <<>>
    /\ hist = <<>>
    /\ resp = NoResp("start", 0, 0)
    /\ tasks = [t \in Threads |-> IdleTask]
    /\ sam = SamCold
    /\ \E t \in ParseBytes \X ParseBytes \X ParseBytes, form \in ParseForms \cup OtherForms :
          unit = Called("start", <<Written(t, form), form, t>>, <<>>, FALSE)

\* parse_color(color)
ParseColor ==
    /\ unit.fn = "start"
    /\ unit' = [unit EXCEPT !.fn = "parse_color",
                            !.out = parse_color(unit.args[1]).out,
                            !.raised = parse_color(unit.args[1]).raised]
    /\ UNCHANGED <<sessions, hist, resp, tasks, sam>>

NextParse == ParseColor

SpecParse == InitParse /\ [][NextParse]_vars

----------------------------------------------------------------------------
(* pick_layer called on its own, on masks of two pixels.                   *)

PickMasks == [Pixels(2, 1) -> {0, 255}]

\* the mask dicts: each layer of LAYER_ORDER bound to a mask or not bound
PickDicts ==
    UNION {[{MaskKey(l) : l \in present} -> PickMasks] :
              present \in SUBSET {"border", "field", "rug", "background"}}

InitPick ==
    /\ sessions = <<>>
    /\ hist = <<>>
    /\ resp = NoResp("start", 0, 0)
    /\ tasks = [t \in Threads |-> IdleTask]
    /\ sam = SamCold
    /\ \E masks \in PickDicts, p \in Pixels(2, 1) :
          unit = Called("start", <<masks, p[1], p[2]>>, <<>>, FALSE)

\* pick_layer(masks, x, y)
PickLayer ==
    /\ unit.fn = "start"
    /\ IF pick_layer_raises(unit.args[1], unit.args[2], unit.args[3])
       THEN unit' = [unit EXCEPT !.fn = "pick_layer", !.raised = TRUE]
       ELSE unit' = [unit EXCEPT !.fn = "pick_layer",
                                 !.out = <<pick_layer(unit.args[1], unit.args[2],
                                                      unit.args[3])>>]
    /\ UNCHANGED <<sessions, hist, resp, tasks, sam>>

NextPick == PickLayer

SpecPick == InitPick /\ [][NextPick]_vars

----------------------------------------------------------------------------
(* Steps 4-5 of segment_flat_design on their own, on rug masks with        *)
(* max_dist >= 2.                                                          *)

\* rug masks: a block of foreground inside a 5 x 5 image
RugMasks ==
    {MaskOf(Pixels(5, 5), {p \in Pixels(5, 5) : p[1] \in x0 .. 3 /\ p[2] \in 1 .. y1}) :
        x0 \in {0, 1}, y1 \in {3, 4}}

MaxRatios == 2     \* ratios in an explicit layer_ratios list

LayerRatios == {<<0 - 1, 2>>, <<1, 4>>, <<1, 2>>, <<1, 1>>, <<3, 2>>}
RatioLists == UNION {[1 .. n -> LayerRatios] : n \in 1 .. MaxRatios}
\* <<alpha_val, layer_count, layer_ratios>>, layer_ratios <<>> for None
RatioArgs ==
    {<<a, n, <<>>>> : a \in AlphaVals, n \in 1 .. 4}
    \cup {<<<<1, 5>>, 2, l>> : l \in RatioLists}

InitLayers ==
    /\ sessions = <<>>
    /\ hist = <<>>
    /\ resp = NoResp("start", 0, 0)
    /\ tasks = [t \in Threads |-> IdleTask]
    /\ sam = SamCold
    /\ \E rug \in RugMasks, a \in RatioArgs :
          unit = Called("start", <<rug, a[1], a[2], a[3]>>, <<>>, FALSE)

\* the masks segment_flat_design builds from the rug mask
FlatLayers ==
    /\ unit.fn = "start"
    /\ unit' = [unit EXCEPT !.fn = "segment_flat_design",
                            !.out = <<flat_from_rug(unit.args[1], unit.args[2],
                                                    unit.args[3], unit.args[4])>>]
    /\ UNCHANGED <<sessions, hist, resp, tasks, sam>>

NextLayers == FlatLayers

SpecLayers == InitLayers /\ [][NextLayers]_vars

----------------------------------------------------------------------------
(* Threads that upload and pick through the one predictor of the process:  *)
(* compute_embedding and predict_at_point, step by step, once the model is *)
(* loaded.  sam.features is the embedding held by the predictor.           *)

MaxUploads == 2      \* uploads in one run

EmbedImages == {ImgA, ImgB}

SamWarm == [SamCold EXCEPT !.instances = 1, !.model_loaded = TRUE, !.predictor = 1,
                           !.loads = 1, !.predictors = 1]

InitEmbed ==
    /\ sessions = <<>>
    /\ hist = <<>>
    /\ resp = NoResp("start", 0, 0)
    /\ tasks = [t \in Threads |-> IdleTask]
    /\ sam = SamWarm
    /\ unit = NoUnit

\* interactive_upload up to sam.compute_embedding(rgb.copy())
EmbedUpload(t) ==
    /\ tasks[t].pc = "idle"
    /\ Cardinality(DOMAIN hist) + Cardinality({u \in Threads : tasks[u].pc
                                                  \in {"set_image", "features"}})
          < MaxUploads
    /\ \E image \in EmbedImages :
          tasks' = [tasks EXCEPT ![t] = [IdleTask EXCEPT !.pc = "set_image",
                                                         !.edited = <<image>>]]
    /\ UNCHANGED <<sessions, hist, resp, sam, unit>>

\* compute_embedding: self._predictor.set_image(image_rgb)
EmbedSetImage(t) ==
    /\ tasks[t].pc = "set_image"
    /\ sam' = [sam EXCEPT !.features = <<compute_embedding(Reverse3(tasks[t].edited[1]))>>]
    /\ tasks' = [tasks EXCEPT ![t].pc = "features"]
    /\ UNCHANGED <<sessions, hist, resp, unit>>

\* compute_embedding: embedding = {"features": self._predictor.features, ...},
\* then the session of the upload is created with it
EmbedStore(t) ==
    /\ tasks[t].pc = "features"
    /\ sessions' = (FreshId(hist) :>
                      [create_session(FreshId(hist), tasks[t].edited[1],
                                      [k \in {"background_mask"} |->
                                          Zeros(DOMAIN tasks[t].edited[1])],
                                      [seg_mode |-> "sam"])
                          EXCEPT !.sam_embedding = sam.features,
                                 !.image_rgb = <<Reverse3(tasks[t].edited[1])>>])
                   @@ sessions
    /\ hist' = (FreshId(hist) :> NewHist(tasks[t].edited[1])) @@ hist
    /\ tasks' = [tasks EXCEPT ![t] = IdleTask]
    /\ UNCHANGED <<resp, sam, unit>>

\* interactive_pick up to sam.predict_at_point(x, y, session.sam_embedding)
EmbedPick(t) ==
    /\ tasks[t].pc = "idle"
    /\ \E sid \in DOMAIN sessions :
          tasks' = [tasks EXCEPT ![t] = [IdleTask EXCEPT !.pc = "restore", !.sid = sid]]
    /\ UNCHANGED <<sessions, hist, resp, sam, unit>>

\* predict_at_point: self._restore_embedding(embedding)
EmbedRestore(t) ==
    /\ tasks[t].pc = "restore"
    /\ sam' = [sam EXCEPT !.features = sessions[tasks[t].sid].sam_embedding]
    /\ tasks' = [tasks EXCEPT ![t].pc = "predict"]
    /\ UNCHANGED <<sessions, hist, resp, unit>>

\* predict_at_point: self._predictor.predict(...), on the features the
\* predictor holds now
EmbedPredict(t) ==
    /\ tasks[t].pc = "predict"
    /\ tasks' = [tasks EXCEPT ![t].pc = "predicted", ![t].result = sam.features]
    /\ UNCHANGED <<sessions, hist, resp, sam, unit>>

\* the pick returns
EmbedReturn(t) ==
    /\ tasks[t].pc = "predicted"
    /\ tasks' = [tasks EXCEPT ![t] = IdleTask]
    /\ UNCHANGED <<sessions, hist, resp, sam, unit>>

NextEmbed ==
    \E t \in Threads :
        \/ EmbedUpload(t)
        \/ EmbedSetImage(t)
        \/ EmbedStore(t)
        \/ EmbedPick(t)
        \/ EmbedRestore(t)
        \/ EmbedPredict(t)
        \/ EmbedReturn(t)

SpecEmbed == InitEmbed /\ [][NextEmbed]_vars

----------------------------------------------------------------------------
(* Threads that call compute_embedding or predict_at_point of              *)
(* get_sam_segmenter() for the first time.  A step is one statement of     *)
(* get_instance or _ensure_model that reads or writes shared state.        *)

SamCalls == {"compute_embedding", "predict_at_point"}

InitLoad ==
    /\ sessions = <<>>
    /\ hist = <<>>
    /\ resp = NoResp("start", 0, 0)
    /\ tasks = [t \in Threads |-> IdleTask]
    /\ sam = SamCold
    /\ unit = NoUnit

\* thread t moves to pc
Goto(t, pc) == [sam EXCEPT !.pc[t] = pc]

\* sam = get_sam_segmenter(), then sam.compute_embedding(...) or
\* sam.predict_at_point(...)
SamCall(t) ==
    /\ sam.pc[t] = "idle"
    /\ \E call \in SamCalls :
          sam' = [sam EXCEPT !.pc[t] = "instance_check", !.call[t] = call]
    /\ UNCHANGED <<sessions, hist, resp, tasks, unit>>

\* get_instance: if cls._instance is None
InstanceCheck(t) ==
    /\ sam.pc[t] = "instance_check"
    /\ sam' = Goto(t, IF sam.instances = 0 THEN "lock" ELSE "ensure_check")
    /\ UNCHANGED <<sessions, hist, resp, tasks, unit>>

\* get_instance: with cls._lock
AcquireLock(t) ==
    /\ sam.pc[t] = "lock"
    /\ sam.lock = 0
    /\ sam' = [sam EXCEPT !.pc[t] = "instance_recheck", !.lock = t]
    /\ UNCHANGED <<sessions, hist, resp, tasks, unit>>

\* get_instance, under the lock: if cls._instance is None: cls._instance =
\* SamSegmenter(); the lock is released on leaving the with block
CreateInstance(t) ==
    /\ sam.pc[t] = "instance_recheck"
    /\ sam' = [sam EXCEPT !.pc[t] = "ensure_check", !.lock = 0,
                          !.instances = IF @ = 0 THEN 1 ELSE @]
    /\ UNCHANGED <<sessions, hist, resp, tasks, unit>>

\* _ensure_model: if self._model_loaded and self._predictor is not None: return
EnsureCheck(t) ==
    /\ sam.pc[t] = "ensure_check"
    /\ sam' = Goto(t, IF sam.model_loaded /\ sam.predictor # 0 THEN "use" ELSE "available")
    /\ UNCHANGED <<sessions, hist, resp, tasks, unit>>

\* _ensure_model: if not self.is_available(): raise RuntimeError
CheckAvailable(t) ==
    /\ sam.pc[t] = "available"
    /\ \E available \in BOOLEAN : sam' = Goto(t, IF available THEN "load" ELSE "raised")
    /\ UNCHANGED <<sessions, hist, resp, tasks, unit>>

\* _ensure_model, the loading body: sam = sam_model_registry[...](checkpoint=...);
\* sam.to(device=...)
LoadModel(t) ==
    /\ sam.pc[t] = "load"
    /\ sam' = [sam EXCEPT !.pc[t] = "set_predictor", !.loads = @ + 1]
    /\ UNCHANGED <<sessions, hist, resp, tasks, unit>>

\* _ensure_model: self._predictor = SamPredictor(sam)
SetPredictor(t) ==
    /\ sam.pc[t] = "set_predictor"
    /\ sam' = [sam EXCEPT !.pc[t] = "set_loaded", !.predictors = @ + 1,
                          !.predictor = sam.predictors + 1]
    /\ UNCHANGED <<sessions, hist, resp, tasks, unit>>

\* _ensure_model: self._model_loaded = True
SetLoaded(t) ==
    /\ sam.pc[t] = "set_loaded"
    /\ sam' = [sam EXCEPT !.pc[t] = "use", !.model_loaded = TRUE]
    /\ UNCHANGED <<sessions, hist, resp, tasks, unit>>

\* the rest of compute_embedding or predict_at_point, on self._predictor
UsePredictor(t) ==
    /\ sam.pc[t] = "use"
    /\ sam' = Goto(t, "done")
    /\ UNCHANGED <<sessions, hist, resp, tasks, unit>>

NextLoad ==
    \E t \in Threads :
        \/ SamCall(t)
        \/ InstanceCheck(t)
        \/ AcquireLock(t)
        \/ CreateInstance(t)
        \/ EnsureCheck(t)
        \/ CheckAvailable(t)
        \/ LoadModel(t)
        \/ SetPredictor(t)
        \/ SetLoaded(t)
        \/ UsePredictor(t)

SpecLoad == InitLoad /\ [][NextLoad]_vars

----------------------------------------------------------------------------
(* Properties.                                                             *)

\* the session the last request addressed exists
Addressed == resp.sid \in DOMAIN sessions

\* the last request was a click inside / outside the image of its session
ClickInside ==
    /\ resp.x >= 0 /\ resp.x < Width(sessions[resp.sid].last_result_bgr)
    /\ resp.y >= 0 /\ resp.y < Height(sessions[resp.sid].last_result_bgr)

\* the session works in promptable mode: it holds a cached embedding
Promptable(sid) == sessions[sid].sam_embedding # <<>>

\* C1: after any sequence of successful edits, through either edit endpoint
\* and with any feather radius, every pixel outside the mask of every edit
\* applied so far has exactly the colour it had in the uploaded image.
C1_OutsidePixelsKeepColour ==
    \A sid \in DOMAIN sessions :
        \A p \in DOMAIN hist[sid].orig :
            p \notin hist[sid].touched
                => sessions[sid].last_result_bgr[p] = hist[sid].orig[p]

\* C2: in every stored LayerSet the named layer masks, as 0/1 indicators, sum
\* to exactly 1 at every pixel.  rug, which the specification defines as the
\* union of border and field, is counted only when the set has no border and
\* field of its own, and the active mask is a selection, not a layer.
C2_PartitionSum ==
    \A sid \in DOMAIN sessions :
        LET masks  == sessions[sid].masks
            fine   == {"border_mask", "field_mask"} \subseteq DOMAIN masks
            layers == (DOMAIN masks) \ ({"active_mask"} \cup (IF fine THEN {"rug_mask"} ELSE {}))
        IN \A p \in DOMAIN sessions[sid].last_result_bgr :
               Cardinality({k \in layers : masks[k][p] > 0}) = 1

\* C3: in every 2-layer mask set border and field are disjoint, their union
\* is exactly rug and background is exactly the complement of rug, so that no
\* border pixel is a background pixel.
C3_BorderFieldRugBackground ==
    \A sid \in DOMAIN sessions :
        LET masks == sessions[sid].masks IN
        {"border_mask", "field_mask", "rug_mask", "background_mask"} \subseteq DOMAIN masks
            => /\ Members(masks["border_mask"]) \cap Members(masks["field_mask"]) = {}
               /\ Members(masks["border_mask"]) \cup Members(masks["field_mask"])
                      = Members(masks["rug_mask"])
               /\ Members(masks["background_mask"])
                      = (DOMAIN masks["rug_mask"]) \ Members(masks["rug_mask"])
               /\ Members(masks["border_mask"]) \cap Members(masks["background_mask"]) = {}

\* C4: every pick entry point fails, returns no layer and leaves the session
\* unchanged when the click has x < 0, y < 0, x >= width or y >= height.
C4_OutOfBoundsPickFails ==
    [][\A sid \in DOMAIN sessions :
          (/\ resp'.op \in {"pick", "select_pick"}
           /\ resp'.sid = sid
           /\ \/ resp'.x < 0 \/ resp'.x >= Width(sessions[sid].last_result_bgr)
              \/ resp'.y < 0 \/ resp'.y >= Height(sessions[sid].last_result_bgr))
            => /\ resp'.status # 200
               /\ resp'.layer = ""
               /\ sessions' = sessions]_vars

\* C5: in legacy mode a click on a pixel that is zero in every foreground
\* layer, or non-zero only in the background layer, is answered with the
\* layer "none" and an all-zero mask, never with "background", "rug" or any
\* other layer name.
C5_LegacyBackgroundClickIsNone ==
    (/\ resp.op \in {"pick", "select_pick"}
     /\ Addressed
     /\ ~Promptable(resp.sid)
     /\ ClickInside
     /\ \A k \in {"border_mask", "field_mask", "rug_mask"} \cap DOMAIN sessions[resp.sid].masks :
            sessions[resp.sid].masks[k][<<resp.x, resp.y>>] = 0)
        => /\ resp.status = 200
           /\ resp.layer = "none"
           /\ resp.mask = <<Zeros(DOMAIN sessions[resp.sid].last_result_bgr)>>

\* C6: in promptable mode a pick whose click falls on a non-zero pixel of the
\* coarse background mask is answered "none", and the point prediction of the
\* model is not invoked during that pick.
C6_BackgroundClickSkipsModel ==
    (/\ resp.op = "pick"
     /\ Addressed
     /\ Promptable(resp.sid)
     /\ ClickInside
     /\ sessions[resp.sid].masks["background_mask"][<<resp.x, resp.y>>] > 0)
        => /\ resp.status = 200
           /\ resp.layer = "none"
           /\ resp.model = "not_called"

\* a promptable session answered a click on its coarse background
C6_Witness ==
    /\ resp.op = "pick" /\ Addressed /\ Promptable(resp.sid) /\ ClickInside
    /\ sessions[resp.sid].masks["background_mask"][<<resp.x, resp.y>>] > 0
    /\ resp.layer = "none"

\* C7: in a promptable pick every candidate whose area is below 0.3% of H*W
\* is discarded, the selected region is the highest-confidence candidate among
\* those that remain, and "none" is returned only when no candidate remains.
C7_SmallCandidatesDiscarded ==
    (resp.op = "pick" /\ Addressed /\ resp.model = "returned")
        => LET dom  == DOMAIN sessions[resp.sid].last_result_bgr
               keep == SelectSeq(resp.cands,
                                 LAMBDA r : 1000 * r.area >= 3 * Cardinality(dom))
           IN IF keep = <<>>
              THEN resp.layer = "none"
              ELSE /\ resp.layer = "selected_region"
                   /\ resp.mask = <<keep[1].mask>>
                   /\ sessions[resp.sid].all_sam_masks = keep

\* C8: if the model call raises during a promptable pick, the pick is answered
\* by legacy priority-order picking over the stored masks of the session (the
\* first of border, field, rug that is non-zero at the click, else "none"), not
\* by an error, and the active mask and the candidate list stay as they were.
C8_ModelFailureFallsBack ==
    [][(resp'.op = "pick" /\ resp'.model = "raised")
        => LET masks == sessions[resp'.sid].masks
               c     == <<resp'.x, resp'.y>>
               hit(k) == k \in DOMAIN masks /\ masks[k][c] > 0
               key   == IF hit("border_mask") THEN "border_mask"
                        ELSE IF hit("field_mask") THEN "field_mask"
                        ELSE IF hit("rug_mask") THEN "rug_mask" ELSE ""
           IN /\ resp'.status = 200
              /\ resp'.layer = (CASE key = "border_mask" -> "border"
                                  [] key = "field_mask"  -> "field"
                                  [] key = "rug_mask"    -> "rug"
                                  [] OTHER               -> "none")
              /\ resp'.mask = <<IF key = "" THEN Zeros(DOMAIN masks["background_mask"])
                                ELSE masks[key]>>
              /\ sessions' = sessions]_vars

\* the model raised during a pick on a session that holds an active mask and
\* candidates, and the pick was answered from the stored masks
C8_Witness ==
    /\ resp.op = "pick" /\ resp.model = "raised" /\ resp.layer = "rug"
    /\ Addressed
    /\ sessions[resp.sid].all_sam_masks # <<>>
    /\ "active_mask" \in DOMAIN sessions[resp.sid].masks

\* C9: after a promptable pick that selects a region the session holds the
\* candidates of that click in descending confidence order with the selected
\* one first; a later switch-mask(i) with 0 <= i < n makes candidate i the
\* active mask, which the next edit of the selected region uses, without
\* invoking the model and without changing the candidate list.
C9_CandidatesRetainedAndSwitched ==
    [][/\ (resp'.op = "pick" /\ resp'.layer = "selected_region")
            => LET all == sessions'[resp'.sid].all_sam_masks IN
               /\ all = resp'.cands
               /\ \A i, j \in 1 .. Len(all) : i < j => all[i].score >= all[j].score
               /\ resp'.mask = <<all[1].mask>>
               /\ sessions'[resp'.sid].masks["active_mask"] = all[1].mask
       /\ (/\ resp'.op = "switch_mask"
           /\ resp'.sid \in DOMAIN sessions
           /\ resp'.mask_index >= 0
           /\ resp'.mask_index < Len(sessions[resp'.sid].all_sam_masks))
            => LET all == sessions[resp'.sid].all_sam_masks IN
               /\ resp'.status = 200
               /\ resp'.model = "not_called"
               /\ resp'.mask = <<all[resp'.mask_index + 1].mask>>
               /\ sessions'[resp'.sid].masks["active_mask"] = all[resp'.mask_index + 1].mask
               /\ sessions'[resp'.sid].all_sam_masks = all
       /\ (resp'.op = "edit" /\ resp'.req_layer = "selected_region" /\ resp'.status = 200)
            => resp'.mask = <<sessions[resp'.sid].masks["active_mask"]>>]_vars

\* the selected region was edited after switch-mask made the second of two
\* different candidates the active mask
C9_Witness ==
    /\ resp.op = "edit" /\ resp.req_layer = "selected_region" /\ resp.status = 200
    /\ Addressed
    /\ Len(sessions[resp.sid].all_sam_masks) = 2
    /\ sessions[resp.sid].all_sam_masks[1].mask # sessions[resp.sid].all_sam_masks[2].mask
    /\ resp.mask = <<sessions[resp.sid].all_sam_masks[2].mask>>

\* C10: an edit request that names a layer which is not one of the layers of
\* the session, or a layer that has no mask bound yet, fails, and the image,
\* the masks and the candidate list of the session are exactly as before.
C10_UnboundLayerEditFails ==
    [][\A sid \in DOMAIN sessions :
          (/\ resp'.sid = sid
           /\ \/ /\ resp'.op = "edit"
                 /\ \/ /\ resp'.req_layer = "selected_region"
                       /\ "active_mask" \notin DOMAIN sessions[sid].masks
                    \/ /\ resp'.req_layer # "selected_region"
                       /\ resp'.req_layer \o "_mask" \notin DOMAIN sessions[sid].masks
              \/ /\ resp'.op = "edit_apply"
                 /\ resp'.req_layer \o "_mask" \notin DOMAIN sessions[sid].masks)
            => /\ resp'.status \in {400, 422}
               /\ resp'.image = <<>>
               /\ sessions' = sessions]_vars

\* an edit of the selected region was refused on a promptable session that
\* has no active mask yet although an earlier edit had changed its image
C10_Witness ==
    /\ resp.op = "edit" /\ resp.req_layer = "selected_region" /\ resp.status = 400
    /\ Addressed
    /\ Promptable(resp.sid)
    /\ "active_mask" \notin DOMAIN sessions[resp.sid].masks
    /\ hist[resp.sid].edits > 0

\* the last request was an upload of a decodable image
Uploading == resp.op = "upload" /\ resp.upload.file # BadFile

\* segment_from_pil returns for the uploaded image: the flat strategy succeeds
FlatSucceeds == ~flat_raises(resp.upload.file, resp.upload.white_threshold)

\* C11: in a legacy upload, for every permitted layer_count, the strategies are
\* attempted in the order flat, rule-based, GrabCut, a later one only if every
\* earlier one failed, and the masks and seg_mode of the session are those of
\* the first strategy that succeeds: of the flat one whenever it succeeds.
C11_FirstSuccessfulStrategyWins ==
    (Uploading /\ resp.layer # "sam" /\ resp.upload.layer_count \in 1 .. 6)
        => /\ resp.ran \in {<<"flat">>, <<"flat", "rule">>, <<"flat", "rule", "grabcut">>}
           /\ FlatSucceeds
                => /\ resp.ran = <<"flat">>
                   /\ resp.status = 200
                   /\ sessions[resp.sid].meta.seg_mode = flat_seg_mode(resp.upload.file)
                   /\ sessions[resp.sid].masks["rug_mask"]
                        = flat_rug(resp.upload.file, resp.upload.white_threshold)

\* C12: if every segmentation strategy fails, upload creates no session and
\* the failure it reports carries the reason of each strategy that was
\* attempted, not only of the first.
C12_FailureCarriesEveryReason ==
    (Uploading /\ resp.status = 400)
        => /\ resp.sid \notin DOMAIN sessions
           /\ resp.reasons = resp.ran

\* the accepted foreground of a session: its rug mask, or what its background
\* mask leaves when it holds no rug mask
Foreground(s) ==
    IF "rug_mask" \in DOMAIN s.masks THEN Members(s.masks["rug_mask"])
    ELSE (DOMAIN s.last_result_bgr) \ Members(s.masks["background_mask"])

\* C13: no session exists whose accepted foreground covers less than 1% or
\* more than 99% of the pixels of its image, whatever strategy created it.
C13_ForegroundRatioInRange ==
    \A sid \in DOMAIN sessions :
        LET fg    == Cardinality(Foreground(sessions[sid]))
            total == Cardinality(DOMAIN sessions[sid].last_result_bgr)
        IN 100 * fg >= total /\ 100 * fg <= 99 * total

\* C14: a session created by an upload with layer_count = N >= 3, on an image
\* the flat segmenter can layer (max_dist >= 2), holds the indexed layers
\* layer_0 .. layer_{N-1} and the background.
C14_IndexedLayersStored ==
    (/\ Uploading /\ resp.status = 200
     /\ resp.upload.layer_count >= 3
     /\ FlatSucceeds
     /\ max_dist2(distance_transform2(
            flat_rug(resp.upload.file, resp.upload.white_threshold))) >= 4)
        => {LayerKey(i) : i \in 0 .. resp.upload.layer_count - 1} \cup {"background_mask"}
              \subseteq DOMAIN sessions[resp.sid].masks

\* one whole edit on image: what interactive_edit stores when nothing interferes
EditOnce(image, mask, prompt) ==
    composite(image, edit_layer(image, mask, translate_prompt_to_params(prompt)), mask, 0)

RECURSIVE EditInOrder(_, _)
\* the edits of the threads of order applied to image one after the other
EditInOrder(order, image) ==
    IF order = <<>> THEN image
    ELSE EditInOrder(Tail(order),
                     EditOnce(image, tasks[Head(order)].mask[1], tasks[Head(order)].prompt))

\* C15: when the edits that run concurrently on one session have all finished,
\* no update is lost: the image of the session is what the edits give when
\* they run one after the other, in some order.
C15_NoLostUpdate ==
    (\A t \in Threads : tasks[t].pc = "done" /\ tasks[t].sid = 1)
        => \E order \in {o \in [1 .. MaxThreads -> Threads] :
                            \A i, j \in 1 .. MaxThreads : i # j => o[i] # o[j]} :
              sessions[1].last_result_bgr = EditInOrder(order, hist[1].orig)

\* C16: under any interleaving of concurrent first calls to compute_embedding
\* and predict_at_point the model is loaded at most once per process: the
\* loading body of _ensure_model runs at most one time and at most one
\* predictor is ever made.
C16_ModelLoadedAtMostOnce ==
    sam.loads <= 1 /\ sam.predictors <= 1

\* C17: get_session(sid) returns a session exactly when sid was returned by a
\* create_session and has not been passed to delete_session since; a create
\* returns an id no earlier create returned; and a session leaves the store
\* only by delete_session on its id.
C17_StoreTracksCreatesAndDeletes ==
    [][/\ unit'.fn = "get_session"
            => /\ (unit'.out # <<>>)
                    <=> (unit'.args[1] \in DOMAIN hist /\ ~hist[unit'.args[1]].deleted)
               /\ unit'.out # <<>> => unit'.out[1].session_id = unit'.args[1]
       /\ unit'.fn = "create_session"
            => /\ unit'.out[1] \notin DOMAIN hist
               /\ unit'.out[1] \in DOMAIN sessions'
       /\ \A sid \in DOMAIN sessions :
            sid \notin DOMAIN sessions'
                => unit'.fn = "delete_session" /\ unit'.args[1] = sid]_vars

\* get_session answered None for the id of a deleted session while the
\* session of a later create is still stored
C17_Witness ==
    /\ unit.fn = "get_session" /\ unit.out = <<>>
    /\ unit.args[1] \in DOMAIN hist /\ hist[unit.args[1]].deleted
    /\ \E other \in DOMAIN sessions : other # unit.args[1]

\* C18: update_session(sid, k1=v1, ...) replaces exactly the session fields
\* named in the call: every field of session sid that was not passed, meta
\* included, and every other session are unchanged; on an unknown sid it
\* raises and changes nothing.
C18_UpdateChangesOnlyNamedFields ==
    [][unit'.fn = "update_session"
        => LET sid == unit'.args[1]
               kw  == unit'.args[2]
           IN IF sid \notin DOMAIN sessions
              THEN unit'.raised /\ sessions' = sessions
              ELSE /\ ~unit'.raised
                   /\ DOMAIN sessions' = DOMAIN sessions
                   /\ \A f \in SessionFields :
                        sessions'[sid][f] = IF f \in DOMAIN kw THEN kw[f] ELSE sessions[sid][f]
                   /\ \A other \in (DOMAIN sessions) \ {sid} :
                        sessions'[other] = sessions[other]]_vars

\* the image an edit of the session image base gives
EditOf(base, mask, prompt, feather_radius) ==
    composite(base, edit_layer(base, mask, translate_prompt_to_params(prompt)), mask,
              feather_radius)

\* C19: after a successful edit the image of the session is the composited
\* image the response carries, and it is the edit of the image the session
\* held before the request, so edits accumulate; a pick or a switch of mask
\* changes the image of no session.
C19_EditsAccumulate ==
    [][/\ resp'.op \in {"edit", "edit_apply"} /\ resp'.status = 200
            => /\ resp'.image = <<bgr_to_png_base64(sessions'[resp'.sid].last_result_bgr)>>
               /\ \E prompt \in Prompts \ {PromptEmpty}, feather_radius \in 0 .. MaxFeather :
                     sessions'[resp'.sid].last_result_bgr
                        = EditOf(sessions[resp'.sid].last_result_bgr, resp'.mask[1],
                                 prompt, feather_radius)
       /\ resp'.op \in {"pick", "select_pick", "switch_mask"}
            => /\ DOMAIN sessions' = DOMAIN sessions
               /\ \A sid \in DOMAIN sessions :
                     sessions'[sid].last_result_bgr = sessions[sid].last_result_bgr]_vars

\* a second edit answered with the image of the session, which differs from
\* the same edit applied to the uploaded image
C19_Witness ==
    /\ resp.op \in {"edit", "edit_apply"} /\ resp.status = 200
    /\ resp.sid \in DOMAIN sessions
    /\ hist[resp.sid].edits = 2
    /\ resp.image = <<bgr_to_png_base64(sessions[resp.sid].last_result_bgr)>>
    /\ \A prompt \in Prompts \ {PromptEmpty}, feather_radius \in 0 .. MaxFeather :
          sessions[resp.sid].last_result_bgr
             # EditOf(hist[resp.sid].orig, resp.mask[1], prompt, feather_radius)

\* C20: composite(I, I, M, r) = I for every image I, every byte mask M of
\* the size of I and every feather radius r >= 0.
C20_SelfCompositeIsIdentity ==
    unit.fn = "composite" /\ unit.out # <<>> => unit.out[1] = unit.args[1]

\* C21: composite(base, edited, M, 0) is, at every pixel, the pixel of edited
\* where M > 0 and the pixel of base where M = 0.
C21_HardCompositeSubstitutes ==
    unit.fn = "composite" /\ unit.out # <<>> /\ unit.args[4] = 0
        => \A p \in DOMAIN unit.args[1] :
              unit.out[1][p] = IF unit.args[3][p] > 0 THEN unit.args[2][p]
                               ELSE unit.args[1][p]

\* the colours of the source list
SourcesOf(u) == {u.args[2][i] : i \in DOMAIN u.args[2]}

\* C22: apply_color_mapping with tolerance 0 changes only pixels whose colour
\* is exactly one of the source colours; every other pixel of the result is
\* the input pixel, whether preserve_luminance is true or false.
C22_ToleranceZeroIsExact ==
    unit.fn = "apply_color_mapping" /\ unit.args[4] = 0
        => \A p \in DOMAIN unit.args[1] :
              unit.args[1][p] \notin SourcesOf(unit) => unit.out[1][p] = unit.args[1][p]

\* C23: apply_color_mapping fails and returns no image whenever the source
\* list and the target list differ in length.
C23_LengthMismatchFails ==
    unit.fn = "apply_color_mapping" /\ Len(unit.args[2]) # Len(unit.args[3])
        => unit.raised /\ unit.out = <<>>

\* C30: with preserve_luminance false a pixel is remapped by at most one pair,
\* chosen by its colour in the input image: the result pixel is the input
\* pixel or the target of a pair whose source is within tolerance of the
\* input pixel.
C30_RemappedAtMostOnce ==
    unit.fn = "apply_color_mapping" /\ ~unit.args[5]
        => \A p \in DOMAIN unit.args[1] :
              \/ unit.out[1][p] = unit.args[1][p]
              \/ \E i \in 1 .. Min(Len(unit.args[2]), Len(unit.args[3])) :
                    /\ Dist2(unit.args[1][p], unit.args[2][i]) <= unit.args[4] * unit.args[4]
                    /\ unit.out[1][p] = unit.args[3][i]

\* C24: parse_color returns the same triple, each component in 0 .. 255, for
\* '#RRGGBB', 'RRGGBB', 'R,G,B', 'R, G, B' and the tuple (R, G, B); a string
\* in none of these forms raises ValueError.
C24_ParseColorForms ==
    unit.fn = "parse_color"
        => IF unit.args[2] \in ParseForms
           THEN ~unit.raised /\ unit.out = <<unit.args[3]>>
           ELSE unit.raised

\* the layers whose mask is non-zero at the click, of a list of layers
HitsAt(masks, layers, x, y) ==
    SelectSeq(layers, LAMBDA l : MaskKey(l) \in DOMAIN masks /\ masks[MaskKey(l)][<<x, y>>] > 0)

\* C25: for any mask set and any in-bounds click, pick_layer returns the first
\* layer, in the priority order field, border, rug, background, whose mask is
\* non-zero at the click.
C25_MostSpecificLayerPicked ==
    unit.fn = "pick_layer"
      /\ HitsAt(unit.args[1], <<"field", "border", "rug", "background">>,
                unit.args[2], unit.args[3]) # <<>>
        => /\ ~unit.raised
           /\ unit.out[1].layer
                = HitsAt(unit.args[1], <<"field", "border", "rug", "background">>,
                         unit.args[2], unit.args[3])[1]

\* the keys layer_i_mask of a mask dict
IndexedKeys(masks) == {LayerKey(i) : i \in 0 .. 7} \cap DOMAIN masks

C27_EditUsesLatestSelection ==
    [][(/\ resp'.op = "edit" /\ resp'.req_layer = "selected_region"
        /\ resp.op \in {"pick", "switch_mask"} /\ resp.status = 200
        /\ resp'.sid = resp.sid
        /\ resp'.status \in {200, 400})
            => IF resp.layer = "selected_region"
               THEN resp'.status = 200 /\ resp'.mask = resp.mask
               ELSE resp.layer = "none" => resp'.status = 400]_vars

\* C28: switch-mask with a mask_index outside 0 .. n-1, n the number of
\* retained candidates, fails and leaves the session unchanged.
C28_BadIndexSwitchFails ==
    [][(/\ resp'.op = "switch_mask"
        /\ resp'.sid \in DOMAIN sessions
        /\ \/ resp'.mask_index < 0
           \/ resp'.mask_index >= Len(sessions[resp'.sid].all_sam_masks))
            => resp'.status # 200 /\ sessions' = sessions]_vars

\* C29: a promptable pick on a session is computed from the embedding of the
\* image of that session, whatever uploads and picks on other sessions run
\* through the predictor at the same time.
C29_PickUsesOwnEmbedding ==
    \A t \in Threads :
        tasks[t].pc = "predicted"
            => tasks[t].result = <<compute_embedding(Reverse3(hist[tasks[t].sid].orig))>>
====
